---- MODULE Spec2Model ----
(***************************************************************************)
(* A model of src/src/cli.ts: the streaming markdown renderer              *)
(* (MarkdownRenderer), the line wrapper (wrapAssistantText), the           *)
(* erase-and-redraw display coordinator (eraseLines, redrawPrompt,         *)
(* writePermanent, writeStreaming, the spinner) writing to a               *)
(* character-level terminal, the line editor (handleChar), shutdown, and   *)
(* the main polling loop with processMessages, the agent invocation, the   *)
(* iMessage poller and the interruptible sleep.                            *)
(*                                                                         *)
(* Text is a sequence of characters; a character is a one-element string.  *)
(* ESC stands for the byte 0x1b, BULLET for U+2022, RULE for U+2500 and    *)
(* BQ for the backquote.                                                   *)
(***************************************************************************)
EXTENDS Integers, Sequences, FiniteSets, TLC

VARIABLES
    cols,           \* process.stdout.columns || 80
    mdRenderer,     \* the MarkdownRenderer instance (its private fields)
    mdOp,           \* the last renderer call: "new", "push" or "flush"
    mdChunk,        \* the chunk of the last push
    mdOut,          \* what the last call returned
    mdPre,          \* the renderer's fields before the last call
    mdText,         \* every chunk pushed so far, concatenated
    mdAcc,          \* every output returned so far, concatenated
    mdPushes,       \* number of push calls so far
    mdTwin,         \* a second renderer, constructed when the first is flushed
    text,           \* wrapAssistantText: the argument text
    startCol,       \* wrapAssistantText: the argument startCol
    wrapped,        \* wrapAssistantText: the returned wrapped
    endCol,         \* wrapAssistantText: the returned endCol
    wrapCalled,     \* whether wrapAssistantText has returned
    inputBuffer,    \* the line being typed
    spinnerTimer,   \* whether spinnerTimer holds an interval handle (non-null)
    intervals,      \* number of setInterval timers created and not cleared
    dynamicLineCount,
    streamingCol,
    streamingActive,
    spinnerFrame,
    promptVisible,
    term,           \* the terminal behind process.stdout
    output,         \* a terminal that received only the permanent and streamed text
    lastOp,         \* the last coordinator operation
    atStart,        \* the terminal at the startSpinner that began a round trip
    escapeSeq,      \* handleChar: 0 normal, 1 got ESC, 2 got ESC and [
    messageQueue,   \* the queued messages, oldest first
    running,
    processing,
    imessagePollerTimer, \* whether the poller holds an interval handle (non-null)
    isTTY,          \* process.stdin.isTTY
    rawMode,        \* whether stdin is in raw mode
    readerAlive,    \* whether readStdinRaw is still reading keystrokes
    exited,         \* whether the process has exited
    wakeResolve,    \* the sleep whose resolver wakeResolve holds, 0 for null
    sleepNo,        \* the number of the last interruptibleSleep of the main loop
    resolved,       \* whether the promise of sleep sleepNo is resolved
    shutdownCalls,  \* number of calls of shutdown so far
    shutdownRuns,   \* number of times shutdown went past its guard
    keys,           \* number of keystrokes handled so far
    fed,            \* the keystrokes so far while they follow Continuation
    lastKey,        \* the last keystroke handled
    triggered,      \* whether the last event called shutdown
    queued,         \* whether the last keystroke completed a non-empty line
    loopPc,         \* what the main loop awaits: "sleep", "agent" or "send"
    sleepTimers,    \* the sleeps whose setTimeout has not fired yet
    compacting,     \* whether processMessages is in its COMPACT_CONTEXT branch
    sending,        \* which sendIMessage call is awaited
    firstOutputFired,
    firstOutputs,   \* number of onFirstOutput() calls made by the current run
    batches,        \* the batches handed to processMessages so far
    resultText,     \* whether the agent's result text is non-empty
    lines,          \* number of stdout lines read from the agent
    session,        \* sessionId and isFirstMessage of the SessionState
    uuids,          \* number of crypto.randomUUID() calls so far
    invocations,    \* the session flags of every agent invocation so far
    unreported,     \* number of collaborator failures without an error line yet
    arrived,        \* number of messages read from the iMessage database
    lineSinceSleep, \* whether a line was completed since the last sleep began
    timedOut,       \* whether the timer of the last sleep has fired
    message,        \* sendIMessage: the argument message
    chunks,         \* sendIMessage: what splitMessage returned
    handed,         \* sendIMessage: the chunks handed to the transport so far
    sendPc,         \* sendIMessage: "idle", "sending", "sent" or "thrown"
    attempts,       \* sendIMessage: the transport calls made and their results
    splitTrail,     \* splitMessage: the length of remaining at each iteration
    imdb,           \* the IMessageDatabase object, chat.db and what it returned
    echo,           \* recentlySent, Date.now() and the last echo filter
    turn,           \* the last batch given to processMessages and what became of it
    stream          \* the StreamState of one agent run, its events and its output calls

mdVars ==
    <<mdRenderer, mdOp, mdChunk, mdOut, mdPre, mdText, mdAcc, mdPushes, mdTwin>>

wrapVars == <<text, startCol, wrapped, endCol, wrapCalled>>

displayVars == <<inputBuffer, spinnerTimer, intervals, dynamicLineCount, streamingCol,
                 streamingActive, spinnerFrame, promptVisible, term, output,
                 lastOp, atStart>>

editorVars == <<escapeSeq, messageQueue, running, processing, imessagePollerTimer,
                isTTY, rawMode, readerAlive, exited, wakeResolve, sleepNo, resolved,
                shutdownCalls, shutdownRuns, keys, fed, lastKey, triggered, queued>>

loopVars == <<loopPc, sleepTimers, compacting, sending, firstOutputFired, firstOutputs,
              batches,
              resultText,
              lines, session, uuids, invocations, unreported, arrived,
              lineSinceSleep, timedOut>>

sendVars == <<message, chunks, handed, sendPc, splitTrail, attempts>>

bridgeVars == <<sendVars, imdb, echo, turn, stream>>

vars == <<cols, mdVars, wrapVars, displayVars, editorVars, loopVars, bridgeVars>>

----------------------------------------------------------------------------
(* Bounds of the model.                                                    *)

MaxPushes == 4
LongLen == 260
MaxWrapLen == 4
MaxRows == 3
MaxLineLen == 1
MaxIntervals == 2
MaxTicks == 1
MaxKeys == 5
MaxShutdowns == 2
MaxDownKeys == 3
MaxSleeps == 2
MaxLines == 1
MaxArrivals == 2
MaxLoopKeys == 2
MaxFlushPushes == 3
MaxFlushes == 2
MaxBlocks == 3
MaxDeltas == 2
MaxOver == 2
MaxInserts == 2
MaxDbCalls == 3
MaxClockSteps == 2
MaxTracked == 2
MaxStreamRows == 4
NarrowCols == 8

----------------------------------------------------------------------------
(* Generic helpers on character sequences.                                 *)

Min(a, b) == IF a < b THEN a ELSE b

Max(a, b) == IF a > b THEN a ELSE b

Count(s, c) == Cardinality({k \in 1..Len(s) : s[k] = c})

Rep(c, k) == [x \in 1..k |-> c]

SetMin(S) == CHOOSE k \in S : \A m \in S : k <= m

\* String.prototype.indexOf(c, from) on 1-based positions; 0 is "not found" (-1).
IndexOf(s, c, from) ==
    LET hits == {k \in from..Len(s) : s[k] = c} IN
    IF hits = {} THEN 0 ELSE SetMin(hits)

\* The first position >= from whose character is outside set; Len(s)+1 if none.
FirstNotIn(s, set, from) ==
    LET hits == {k \in from..Len(s) : s[k] \notin set} IN
    IF hits = {} THEN Len(s) + 1 ELSE SetMin(hits)

EndsWith(s, t) ==
    Len(s) >= Len(t) /\ SubSeq(s, Len(s) - Len(t) + 1, Len(s)) = t

Digits == {"0", "1", "2", "3", "4", "5", "6", "7", "8", "9"}

----------------------------------------------------------------------------
(* Styles, cli.ts lines 22-40.                                             *)

ESC == "ESC"
RESET == <<ESC, "[", "0", "m">>
BOLD == <<ESC, "[", "1", "m">>
DIM == <<ESC, "[", "2", "m">>
ITALIC == <<ESC, "[", "3", "m">>
CYAN == <<ESC, "[", "3", "6", "m">>
YELLOW == <<ESC, "[", "3", "3", "m">>
BRIGHT_MAGENTA == <<ESC, "[", "9", "5", "m">>
UNDERLINE == <<ESC, "[", "4", "m">>
NO_UNDERLINE == <<ESC, "[", "2", "4", "m">>
NO_BOLD == <<ESC, "[", "2", "2", "m">>
NO_ITALIC == <<ESC, "[", "2", "3", "m">>

----------------------------------------------------------------------------
(* MarkdownRenderer, cli.ts lines 49-318.  lineContent is written by push  *)
(* and flush and read nowhere, so it is not part of the state.             *)

LinkTextWindow == 200
LinkTargetWindow == 500

MdNew ==
    [pending |-> <<>>, bold |-> FALSE, italic |-> FALSE, inCode |-> FALSE,
     inCodeBlock |-> FALSE, codeBlockTicks |-> 0, atLineStart |-> TRUE]

\* No second renderer yet.  Once constructed: its fields, what its last call
\* returned, the number of calls made on both renderers since, the number of
\* flushes of the first, and the first renderer as it was before the flush.
TwinNone ==
    [live |-> FALSE, r |-> MdNew, out |-> <<>>, calls |-> 0, flushes |-> 0,
     before |-> MdNew]

\* matchFence(input, i): the length of the run of backquotes or tildes at i when it is >= 3, else 0.
matchFence(input, i) ==
    LET ch == input[i] IN
    IF ch \notin {"BQ", "~"} THEN 0
    ELSE LET count == FirstNotIn(input, {ch}, i) - i IN
         IF count >= 3 THEN count ELSE 0

\* Re-assert bold and italic after a reset code.
Restyle(s) ==
    (IF s.bold THEN BOLD ELSE <<>>) \o (IF s.italic THEN ITALIC ELSE <<>>)

\* this.pending = input.slice(i); break
MdPend(input, s) ==
    [s EXCEPT !.pending = SubSeq(input, s.i, Len(input)), !.brk = TRUE]

\* Lines 68-82: an opening fence at line start.
MdOpenFence(input, s, fence) ==
    LET nl == IndexOf(input, "\n", s.i + fence)
        t == [s EXCEPT !.inCodeBlock = TRUE, !.codeBlockTicks = fence]
    IN  IF nl = 0 THEN MdPend(input, t)
        ELSE [t EXCEPT !.out = @ \o DIM, !.i = nl + 1, !.atLineStart = TRUE]

\* A closing test that accepts any fence, whatever the opening length.
MdClosesAnyFence(fence, ticks) == fence >= 3

\* The closing test of line 89.
MdCloses(fence, ticks) == fence >= ticks

\* Lines 85-112: inside a fenced block.
MdInCodeBlock(input, s) ==
    LET n == Len(input)
        ch == input[s.i]
        fence == IF s.atLineStart THEN matchFence(input, s.i) ELSE 0
    IN  IF s.atLineStart /\ MdCloses(fence, s.codeBlockTicks)
        THEN LET nl == IndexOf(input, "\n", s.i + fence) IN
             [s EXCEPT !.inCodeBlock = FALSE, !.out = @ \o RESET,
                       !.i = IF nl = 0 THEN n + 1 ELSE nl + 1,
                       !.atLineStart = TRUE]
        ELSE IF ch = "\n"
        THEN [s EXCEPT !.out = Append(@, "\n"), !.atLineStart = TRUE, !.i = @ + 1]
        ELSE [s EXCEPT !.out = Append(@, ch), !.atLineStart = FALSE, !.i = @ + 1]

\* Lines 115-126: a backtick toggles inline code.
MdInlineCodeToggle(s) ==
    LET nowIn == ~s.inCode IN
    [s EXCEPT !.inCode = nowIn,
              !.out = @ \o (IF nowIn THEN CYAN ELSE RESET \o Restyle(s)),
              !.i = @ + 1, !.atLineStart = FALSE]

\* Lines 129-140: inside inline code.
MdInCode(input, s) ==
    LET ch == input[s.i] IN
    IF ch = "\n"
    THEN [s EXCEPT !.out = Append(@, "\n"), !.atLineStart = TRUE, !.i = @ + 1]
    ELSE [s EXCEPT !.out = Append(@, ch), !.atLineStart = FALSE, !.i = @ + 1]

\* Lines 143-161: the header branch is taken (it breaks or continues) when the
\* run of # reaches the end of the input or is followed by a space.
MdHeaderEnd(input, i) == FirstNotIn(input, {"#"}, i)

MdHeaderTaken(input, s) ==
    /\ s.atLineStart
    /\ input[s.i] = "#"
    /\ LET j == MdHeaderEnd(input, s.i) IN j > Len(input) \/ input[j] = " "

MdHeader(input, s) ==
    LET j == MdHeaderEnd(input, s.i) IN
    IF j > Len(input) THEN MdPend(input, s)
    ELSE LET nl == IndexOf(input, "\n", j + 1) IN
         IF nl = 0 THEN MdPend(input, s)
         ELSE [s EXCEPT !.out = @ \o BOLD \o SubSeq(input, j + 1, nl - 1) \o RESET
                                  \o Restyle(s) \o <<"\n">>,
                        !.i = nl + 1, !.atLineStart = TRUE]

\* Lines 164-187: horizontal rule.  j is where the scan of line 169 stops.
MdRuleStop(input, i) == FirstNotIn(input, {input[i], " "}, i)

MdRuleCount(input, i) ==
    Cardinality({k \in i..(MdRuleStop(input, i) - 1) : input[k] = input[i]})

MdRuleIsRule(input, i) ==
    LET j == MdRuleStop(input, i) IN j > Len(input) \/ input[j] = "\n"

MdRuleTaken(input, s) ==
    /\ s.atLineStart
    /\ input[s.i] \in {"-", "*", "_"}
    /\ \/ MdRuleStop(input, s.i) > Len(input) /\ MdRuleCount(input, s.i) < 3
       \/ MdRuleIsRule(input, s.i) /\ MdRuleCount(input, s.i) >= 3

MdRule(input, s) ==
    LET j == MdRuleStop(input, s.i)
        ruleWidth == Min(cols - 20, 40)
    IN  IF j > Len(input) /\ MdRuleCount(input, s.i) < 3 THEN MdPend(input, s)
        ELSE [s EXCEPT !.out = @ \o DIM \o Rep("RULE", ruleWidth) \o RESET \o Restyle(s)
                                 \o (IF j <= Len(input) THEN <<"\n">> ELSE <<>>),
                       !.i = IF j <= Len(input) THEN j + 1 ELSE j,
                       !.atLineStart = TRUE]

\* Lines 190-210: "- " and "* " list markers.
MdBulletTaken(input, s) ==
    /\ s.atLineStart
    /\ input[s.i] \in {"-", "*"}
    /\ s.i + 1 <= Len(input)
    /\ input[s.i + 1] = " "

MdBullet(s) ==
    [s EXCEPT !.out = @ \o DIM \o <<"BULLET">> \o RESET \o <<" ">> \o Restyle(s),
              !.i = @ + 2, !.atLineStart = FALSE]

\* Lines 211-224: "N. " list markers.
MdNumberEnd(input, i) == FirstNotIn(input, Digits, i)

MdNumberTaken(input, s) ==
    /\ s.atLineStart
    /\ input[s.i] \in Digits
    /\ LET j == MdNumberEnd(input, s.i) IN
       j + 1 <= Len(input) /\ input[j] = "." /\ input[j + 1] = " "

MdNumber(input, s) ==
    LET j == MdNumberEnd(input, s.i) IN
    [s EXCEPT !.out = @ \o DIM \o SubSeq(input, s.i, j - 1) \o <<".">> \o RESET
                        \o <<" ">> \o Restyle(s),
              !.i = j + 2, !.atLineStart = FALSE]

\* Lines 227-235: ** toggles bold.
MdBold(s) ==
    LET nowBold == ~s.bold IN
    [s EXCEPT !.bold = nowBold,
              !.out = @ \o (IF nowBold THEN BOLD
                            ELSE NO_BOLD \o (IF s.italic THEN ITALIC ELSE <<>>)),
              !.i = @ + 2, !.atLineStart = FALSE]

\* Lines 238-246: * toggles italic; a * that ends the input is kept pending.
MdItalic(input, s) ==
    IF s.i = Len(input) THEN [s EXCEPT !.pending = <<"*">>, !.brk = TRUE]
    ELSE LET nowItalic == ~s.italic IN
         [s EXCEPT !.italic = nowItalic,
                   !.out = @ \o (IF nowItalic THEN ITALIC ELSE NO_ITALIC),
                   !.i = @ + 1, !.atLineStart = FALSE]

\* A link branch without look-ahead windows: an unterminated construct is
\* kept pending whatever its length.
MdLinkKindNoWindow(input, i) ==
    LET n == Len(input)
        closeBracket == IndexOf(input, "]", i + 1)
    IN  IF closeBracket = 0 THEN "pend"
        ELSE IF closeBracket + 1 <= n /\ input[closeBracket + 1] = "("
        THEN IF IndexOf(input, ")", closeBracket + 2) = 0 THEN "pend" ELSE "link"
        ELSE "literal"

\* Lines 249-272: links.  "pend", "link" or "literal".
MdLinkKind(input, i) ==
    LET n == Len(input)
        closeBracket == IndexOf(input, "]", i + 1)
    IN  IF closeBracket = 0
        THEN IF n - i + 1 < LinkTextWindow THEN "pend" ELSE "literal"
        ELSE IF closeBracket + 1 <= n /\ input[closeBracket + 1] = "("
        THEN IF IndexOf(input, ")", closeBracket + 2) = 0
             THEN IF n - i + 1 < LinkTargetWindow THEN "pend" ELSE "literal"
             ELSE "link"
        ELSE "literal"

MdLink(input, s) ==
    LET closeBracket == IndexOf(input, "]", s.i + 1)
        closeParen == IndexOf(input, ")", closeBracket + 2)
        linkText == SubSeq(input, s.i + 1, closeBracket - 1)
        url == SubSeq(input, closeBracket + 2, closeParen - 1)
    IN  [s EXCEPT !.out = @ \o UNDERLINE \o linkText \o NO_UNDERLINE \o DIM
                            \o <<" ", "(">> \o url \o <<")">> \o RESET \o Restyle(s),
                  !.i = closeParen + 1, !.atLineStart = FALSE]

\* Lines 275-287: a newline, or a literal character.
MdLiteral(input, s) ==
    LET ch == input[s.i] IN
    IF ch = "\n"
    THEN [s EXCEPT !.out = Append(@, "\n"), !.atLineStart = TRUE, !.i = @ + 1]
    ELSE [s EXCEPT !.out = Append(@, ch), !.atLineStart = FALSE, !.i = @ + 1]

\* One iteration of the loop of lines 66-288.
MdStep(input, s) ==
    LET ch == input[s.i]
        fence == IF s.atLineStart /\ ~s.inCode /\ ~s.inCodeBlock
                 THEN matchFence(input, s.i) ELSE 0
    IN  IF fence > 0 THEN MdOpenFence(input, s, fence)
        ELSE IF s.inCodeBlock THEN MdInCodeBlock(input, s)
        ELSE IF ch = "BQ" THEN MdInlineCodeToggle(s)
        ELSE IF s.inCode THEN MdInCode(input, s)
        ELSE IF MdHeaderTaken(input, s) THEN MdHeader(input, s)
        ELSE IF MdRuleTaken(input, s) THEN MdRule(input, s)
        ELSE IF MdBulletTaken(input, s) THEN MdBullet(s)
        ELSE IF MdNumberTaken(input, s) THEN MdNumber(input, s)
        ELSE IF ch = "*" /\ s.i + 1 <= Len(input) /\ input[s.i + 1] = "*" THEN MdBold(s)
        ELSE IF ch = "*" THEN MdItalic(input, s)
        ELSE IF ch = "[" /\ MdLinkKind(input, s.i) = "pend" THEN MdPend(input, s)
        ELSE IF ch = "[" /\ MdLinkKind(input, s.i) = "link" THEN MdLink(input, s)
        ELSE MdLiteral(input, s)

\* The characters no branch of the loop looks for.  In every renderer state such a
\* character is copied to the output and clears atLineStart (lines 106-110,
\* 135-138, 284-287), so a run of them is taken in one step; this keeps the depth
\* of evaluation independent of the length of plain text.
MdMarkers == {"BQ", "~", "#", "-", "*", "_", "[", "\n"} \cup Digits

MdPlainRun(input, s) ==
    LET marks == {k \in s.i..Len(input) : input[k] \in MdMarkers}
        e == IF marks = {} THEN Len(input) + 1 ELSE SetMin(marks)
    IN
    [s EXCEPT !.out = @ \o SubSeq(input, s.i, e - 1), !.atLineStart = FALSE, !.i = e]

\* The loop of lines 66-288.
RECURSIVE MdLoop(_, _)
MdLoop(input, s) ==
    IF s.brk \/ s.i > Len(input) THEN s
    ELSE IF input[s.i] \notin MdMarkers THEN MdLoop(input, MdPlainRun(input, s))
    ELSE MdLoop(input, MdStep(input, s))

MdFields(s) ==
    [pending |-> s.pending, bold |-> s.bold, italic |-> s.italic, inCode |-> s.inCode,
     inCodeBlock |-> s.inCodeBlock, codeBlockTicks |-> s.codeBlockTicks,
     atLineStart |-> s.atLineStart]

\* push(chunk): the renderer after the call and the returned text.
MdPush(r, chunk) ==
    LET input == r.pending \o chunk
        s0 == [pending |-> <<>>, bold |-> r.bold, italic |-> r.italic,
               inCode |-> r.inCode, inCodeBlock |-> r.inCodeBlock,
               codeBlockTicks |-> r.codeBlockTicks, atLineStart |-> r.atLineStart,
               i |-> 1, out |-> <<>>, brk |-> FALSE]
        s == MdLoop(input, s0)
    IN  [r |-> MdFields(s), out |-> s.out]

\* A flush that leaves atLineStart as it was.
MdFlushKeepsLineStart(r) ==
    [r |-> [r EXCEPT !.pending = <<>>, !.bold = FALSE, !.italic = FALSE,
                     !.inCode = FALSE, !.inCodeBlock = FALSE],
     out |-> r.pending \o
             (IF r.bold \/ r.italic \/ r.inCode \/ r.inCodeBlock THEN RESET ELSE <<>>)]

\* A flush whose test of line 297 forgets the fenced block.
MdFlushForgetsBlock(r) ==
    [r |-> [r EXCEPT !.pending = <<>>, !.bold = FALSE, !.italic = FALSE,
                     !.inCode = FALSE, !.inCodeBlock = FALSE, !.atLineStart = TRUE],
     out |-> r.pending \o (IF r.bold \/ r.italic \/ r.inCode THEN RESET ELSE <<>>)]

\* flush(), lines 294-307.
MdFlush(r) ==
    [r |-> [r EXCEPT !.pending = <<>>, !.bold = FALSE, !.italic = FALSE,
                     !.inCode = FALSE, !.inCodeBlock = FALSE, !.atLineStart = TRUE],
     out |-> r.pending \o
             (IF r.bold \/ r.italic \/ r.inCode \/ r.inCodeBlock THEN RESET ELSE <<>>)]

\* push(text) + flush() on a fresh renderer.
MdWhole(whole) ==
    LET p == MdPush(MdNew, whole) IN p.out \o MdFlush(p.r).out

----------------------------------------------------------------------------
(* The terminal the program writes to: rows of cells and a cursor, with    *)
(* the control sequences the program emits (cli.ts lines 1416-1424 and     *)
(* 1555-1557): ESC[2K clears the cursor's row, ESC[nA moves up, ESC[nC     *)
(* moves right, carriage return goes to column 0, a line feed goes to      *)
(* column 0 of the next row, ESC[...m changes no cell.  c is the 0-based   *)
(* column; c = cols is the pending wrap after the last column was written. *)

\* The bytes 0x20-0x3f, the parameter and intermediate bytes of a sequence.
ParamBytes ==
    Digits \cup {" ", "!", "#", "$", "%", "&", "(", ")", "*", "+", ",", "-", ".", "/",
                 ":", ";", "<", "=", ">", "?"}

DigitValue(d) ==
    CASE d = "0" -> 0 [] d = "1" -> 1 [] d = "2" -> 2 [] d = "3" -> 3 [] d = "4" -> 4
      [] d = "5" -> 5 [] d = "6" -> 6 [] d = "7" -> 7 [] d = "8" -> 8 [] d = "9" -> 9

RECURSIVE DecValue(_)
DecValue(ds) ==
    IF ds = <<>> THEN 0
    ELSE 10 * DecValue(SubSeq(ds, 1, Len(ds) - 1)) + DigitValue(ds[Len(ds)])

DigitChar(v) ==
    CASE v = 0 -> "0" [] v = 1 -> "1" [] v = 2 -> "2" [] v = 3 -> "3" [] v = 4 -> "4"
      [] v = 5 -> "5" [] v = 6 -> "6" [] v = 7 -> "7" [] v = 8 -> "8" [] v = 9 -> "9"

\* The decimal digits of a number, as a template literal prints it.
RECURSIVE DecString(_)
DecString(v) ==
    IF v < 10 THEN <<DigitChar(v)>> ELSE Append(DecString(v \div 10), DigitChar(v % 10))

\* esc is the parser's position inside a control sequence: "" outside one,
\* "E" after ESC, "[" after ESC[ with params the parameter bytes read so far.
TermAt(rows, r, c) == [rows |-> rows, r |-> r, c |-> c, esc |-> "", params |-> <<>>]

TermEmpty == TermAt(<< <<>> >>, 1, 0)

\* A character of East Asian width 2 (one UTF-16 unit for the program, two
\* columns for the terminal) fills two cells, the second one with WideTail.
Wide == "WIDE"

WideTail == "WIDE2"

\* The row with cells from its 0-based column c on, blank cells filling any
\* gap.
TermRowSet(row, c, cells) ==
    LET padded == IF Len(row) < c THEN row \o Rep(" ", c - Len(row)) ELSE row IN
    SubSeq(padded, 1, c) \o cells \o SubSeq(padded, c + 1 + Len(cells), Len(padded))

TermLineFeed(t) ==
    IF t.r = Len(t.rows)
    THEN [t EXCEPT !.rows = Append(@, <<>>), !.r = @ + 1, !.c = 0]
    ELSE [t EXCEPT !.r = @ + 1, !.c = 0]

\* A printable character fills the cells at the cursor and moves right; one
\* that does not fit behind the last filled column goes to column 0 of the
\* next row.
TermPut(t, ch) ==
    LET cells == IF ch = Wide THEN <<ch, WideTail>> ELSE <<ch>>
        u == IF t.c + Len(cells) > cols THEN TermLineFeed(t) ELSE t
    IN  [u EXCEPT !.rows[u.r] = TermRowSet(@, u.c, cells), !.c = u.c + Len(cells)]

TermCsi(t, params, final) ==
    LET n == IF params = <<>> THEN 1 ELSE DecValue(params)
        u == [t EXCEPT !.esc = "", !.params = <<>>]
    IN
    CASE final = "K" /\ params = <<"2">> -> [u EXCEPT !.rows[t.r] = <<>>]
      [] final = "A" -> [u EXCEPT !.r = Max(1, t.r - n)]
      [] final = "C" -> [u EXCEPT !.c = Min(cols - 1, t.c + n)]
      [] OTHER -> u

\* One character received by the terminal.
TermChar(t, ch) ==
    CASE t.esc = "E" -> [t EXCEPT !.esc = IF ch = "[" THEN "[" ELSE ""]
      [] t.esc = "[" /\ ch \in ParamBytes -> [t EXCEPT !.params = Append(@, ch)]
      [] t.esc = "[" /\ ch \notin ParamBytes -> TermCsi(t, t.params, ch)
      [] t.esc = "" /\ ch = ESC -> [t EXCEPT !.esc = "E"]
      [] t.esc = "" /\ ch = "\n" -> TermLineFeed(t)
      [] t.esc = "" /\ ch = "\r" -> [t EXCEPT !.c = 0]
      [] OTHER -> TermPut(t, ch)

\* The characters s[lo..hi] received in order.  The range is halved so that
\* the evaluation nests to a depth logarithmic in its length, and the state
\* after the first half is inspected (the cursor is always on a row) so that
\* it is computed before the second half is entered.
RECURSIVE TermRange(_, _, _, _)
TermRange(s, lo, hi, t) ==
    IF lo > hi THEN t
    ELSE IF lo = hi THEN TermChar(t, s[lo])
    ELSE LET mid == (lo + hi) \div 2
             u   == TermRange(s, lo, mid, t)
         IN  IF u.r >= 1 THEN TermRange(s, mid + 1, hi, u) ELSE u

\* process.stdout.write(s)
TermWrite(t, s) == TermRange(s, 1, Len(s), t)

----------------------------------------------------------------------------
(* The erase-and-redraw display, cli.ts lines 1398-1619.  Each function of *)
(* the source is an operator from the display before the call to the       *)
(* display after it; d holds the variables the functions assign.           *)

SPINNER_FRAMES ==
    <<"FRAME0", "FRAME1", "FRAME2", "FRAME3", "FRAME4",
      "FRAME5", "FRAME6", "FRAME7", "FRAME8", "FRAME9">>

CLEAR_LINE == <<ESC, "[", "2", "K">>

CURSOR_UP == <<ESC, "[", "1", "A">>

CursorRight(n) == <<ESC, "[">> \o DecString(n) \o <<"C">>

Display ==
    [inputBuffer |-> inputBuffer, term |-> term, dynamicLineCount |-> dynamicLineCount,
     spinnerTimer |-> spinnerTimer, intervals |-> intervals,
     streamingCol |-> streamingCol, streamingActive |-> streamingActive,
     spinnerFrame |-> spinnerFrame, promptVisible |-> promptVisible]

\* process.stdout.write(s)
Write(d, s) == [d EXCEPT !.term = TermWrite(@, s)]

\* The bytes eraseLines(count) writes before its carriage return.
RECURSIVE EraseText(_)
EraseText(count) ==
    IF count <= 0 THEN <<>>
    ELSE CLEAR_LINE \o (IF count > 1 THEN CURSOR_UP \o EraseText(count - 1) ELSE <<>>)

\* An eraseLines that clears the cursor's row count times without moving up.
eraseLinesInPlace(d, count) ==
    Write(d, (IF count > 0 THEN CLEAR_LINE ELSE <<>>) \o <<"\r">>)

eraseLines(d, count) == Write(d, EraseText(count) \o <<"\r">>)

\* Lines 1470-1473 and their copies: erase the dynamic section if there is one.
EraseDynamic(d) ==
    IF d.dynamicLineCount > 0
    THEN [eraseLines(d, d.dynamicLineCount) EXCEPT !.dynamicLineCount = 0]
    ELSE d

LastIndexOf(s, c) ==
    LET hits == {k \in 1..Len(s) : s[k] = c} IN
    IF hits = {} THEN 0 ELSE CHOOSE k \in hits : \A m \in hits : m <= k

getVisibleInput(d) ==
    LET maxInput == cols - 5
        currentLine == SubSeq(d.inputBuffer, LastIndexOf(d.inputBuffer, "\n") + 1,
                              Len(d.inputBuffer))
    IN  IF Len(currentLine) > maxInput
        THEN SubSeq(currentLine, Len(currentLine) - maxInput + 1, Len(currentLine))
        ELSE currentLine

\* The prompt prefix of lines 1456-1459 and 1577-1578.
PromptPrefix(d) ==
    IF Count(d.inputBuffer, "\n") > 0
    THEN <<" ", " ">> \o DIM \o <<".", ".">> \o RESET \o <<" ">>
    ELSE <<" ", " ">> \o BRIGHT_MAGENTA \o <<">">> \o RESET \o <<" ">>

ThinkingLabel == <<" ", "T", "h", "i", "n", "k", "i", "n", "g", ".", ".", ".">>

drawSpinnerAndPrompt(d) ==
    LET line == <<" ", " ">> \o DIM \o <<SPINNER_FRAMES[d.spinnerFrame + 1]>>
                \o ThinkingLabel \o RESET \o <<"\n">>
        d1 == Write(d, line)
        d2 == Write(d1, PromptPrefix(d1) \o getVisibleInput(d1))
    IN  [d2 EXCEPT !.dynamicLineCount = 2]

redrawPrompt(d) ==
    LET hadDynamic == d.dynamicLineCount > 0
        d1 == EraseDynamic(d)
    IN  IF d1.spinnerTimer THEN drawSpinnerAndPrompt(d1)
        ELSE LET d2 == IF d1.streamingActive /\ ~hadDynamic
                       THEN Write(d1, <<"\n">>) ELSE d1
                 d3 == Write(d2, PromptPrefix(d2) \o getVisibleInput(d2))
             IN  [d3 EXCEPT !.dynamicLineCount = 1, !.promptVisible = TRUE]

writePermanent(d, t) ==
    LET hadDynamic == d.dynamicLineCount > 0
        d1 == EraseDynamic(d)
        d2 == IF d1.streamingActive
              THEN [(IF hadDynamic THEN d1 ELSE Write(d1, <<"\n">>))
                       EXCEPT !.streamingActive = FALSE, !.streamingCol = 0]
              ELSE d1
        d3 == Write(d2, t \o <<"\n">>)
    IN  IF d3.spinnerTimer THEN drawSpinnerAndPrompt(d3)
        ELSE IF d3.promptVisible THEN redrawPrompt(d3)
        ELSE d3

\* The loop of updateStreamingCol from position i of s with column col.
RECURSIVE StreamingColAfter(_, _, _)
StreamingColAfter(s, i, col) ==
    IF i > Len(s) THEN col
    ELSE IF s[i] = ESC
    THEN IF i + 1 <= Len(s) /\ s[i + 1] = "["
         THEN LET j == FirstNotIn(s, ParamBytes, i + 2) IN
              StreamingColAfter(s, IF j <= Len(s) THEN j + 1 ELSE j, col)
         ELSE StreamingColAfter(s, i + 1, col)
    ELSE IF s[i] = "\n" \/ s[i] = "\r" THEN StreamingColAfter(s, i + 1, 0)
    ELSE StreamingColAfter(s, i + 1, IF col + 1 >= cols THEN 0 ELSE col + 1)

updateStreamingCol(d, t) ==
    [d EXCEPT !.streamingCol = StreamingColAfter(t, 1, d.streamingCol)]

\* writeStreaming up to streamingActive = true (lines 1545-1563): the prompt
\* is erased, the cursor restored and the text written.
streamingWrite(d, t) ==
    LET d1 == IF d.dynamicLineCount > 0
              THEN LET e == EraseDynamic(d) IN
                   IF e.streamingActive
                   THEN Write(e, CURSOR_UP \o (IF e.streamingCol > 0
                                               THEN CursorRight(e.streamingCol)
                                               ELSE <<>>))
                   ELSE e
              ELSE d
    IN  [Write(d1, t) EXCEPT !.streamingActive = TRUE]

writeStreaming(d, t) ==
    redrawPrompt(updateStreamingCol(streamingWrite(d, t), t))

stopSpinner(d) ==
    IF d.spinnerTimer
    THEN [d EXCEPT !.spinnerTimer = FALSE, !.intervals = @ - 1]
    ELSE d

clearSpinner(d) == redrawPrompt(EraseDynamic(stopSpinner(d)))

\* The callback of lines 1605-1611, run by any live interval.
SpinnerTick(d) ==
    LET d1 == [d EXCEPT !.spinnerFrame = (@ + 1) % Len(SPINNER_FRAMES)]
        d2 == [eraseLines(d1, d1.dynamicLineCount) EXCEPT !.dynamicLineCount = 0]
    IN  drawSpinnerAndPrompt(d2)

startSpinner(d) ==
    LET d1 == EraseDynamic([d EXCEPT !.spinnerFrame = 0, !.streamingCol = 0])
        d2 == drawSpinnerAndPrompt(d1)
    IN  [d2 EXCEPT !.spinnerTimer = TRUE, !.intervals = @ + 1]

InputBuffers == {<<>>, <<"h", "i">>, <<"a", "\n", "b">>}

StreamTexts == {<<"s">>, <<"s", "\n">>}

PermanentTexts == {<<"p">>}

\* The variables before main() has assigned them (lines 1255, 1398-1403, 1466,
\* 1573).
DisplayNew ==
    [inputBuffer |-> <<>>, term |-> TermEmpty, dynamicLineCount |-> 0, spinnerTimer |-> FALSE,
     intervals |-> 0, streamingCol |-> 0, streamingActive |-> FALSE,
     spinnerFrame |-> 0, promptVisible |-> FALSE]

\* Idle: the prompt alone is drawn, no spinner and no streamed line.
Idle == ~spinnerTimer /\ ~streamingActive /\ dynamicLineCount = 1

\* The value of atStart outside a round trip.
NoTerm == TermAt(<<>>, 0, 0)

DisplayIs(d) ==
    /\ inputBuffer = d.inputBuffer
    /\ term = d.term
    /\ dynamicLineCount = d.dynamicLineCount
    /\ spinnerTimer = d.spinnerTimer
    /\ intervals = d.intervals
    /\ streamingCol = d.streamingCol
    /\ streamingActive = d.streamingActive
    /\ spinnerFrame = d.spinnerFrame
    /\ promptVisible = d.promptVisible

DisplayIdle ==
    /\ DisplayIs(DisplayNew)
    /\ output = TermEmpty
    /\ lastOp = "new"
    /\ atStart = NoTerm

----------------------------------------------------------------------------
(* The line editor and shutdown, cli.ts lines 1257-1270, 1362-1393 and     *)
(* 1641-1754.  Each function is an operator from the program before the    *)
(* call to the program after it; p holds the display d and the variables   *)
(* the functions assign.                                                   *)

\* F applied to the value of v.
Once(v, F(_)) == CHOOSE r \in {F(x) : x \in {v}} : TRUE

Program ==
    [d |-> Display, output |-> output, escapeSeq |-> escapeSeq,
     messageQueue |-> messageQueue, running |-> running,
     processing |-> processing, imessagePollerTimer |-> imessagePollerTimer,
     rawMode |-> rawMode, readerAlive |-> readerAlive, exited |-> exited,
     wakeResolve |-> wakeResolve, sleepNo |-> sleepNo, resolved |-> resolved,
     shutdownCalls |-> shutdownCalls, shutdownRuns |-> shutdownRuns,
     loopPc |-> loopPc, sleepTimers |-> sleepTimers, compacting |-> compacting,
     sending |-> sending, firstOutputFired |-> firstOutputFired,
     firstOutputs |-> firstOutputs, batches |-> batches,
     resultText |-> resultText, lines |-> lines, session |-> session,
     uuids |-> uuids, invocations |-> invocations, unreported |-> unreported,
     lineSinceSleep |-> lineSinceSleep, timedOut |-> timedOut]

\* ch.charCodeAt(0); every printable character counts as a space.
CharCode(ch) ==
    CASE ch = "ETX" -> 3
      [] ch = "EOT" -> 4
      [] ch = "BS" -> 8
      [] ch = "\t" -> 9
      [] ch = "\n" -> 10
      [] ch = "\r" -> 13
      [] ch = ESC -> 27
      [] ch = "DEL" -> 127
      [] OTHER -> 32

WhiteSpace == {" ", "\t", "\n", "\r"}

\* String.prototype.trim()
StringTrim(s) ==
    LET inked == {k \in 1..Len(s) : s[k] \notin WhiteSpace} IN
    IF inked = {} THEN <<>>
    ELSE SubSeq(s, SetMin(inked), CHOOSE k \in inked : \A m \in inked : m <= k)

\* console.log(t) and console.error(t), lines 1500-1507.
Log(p, t) ==
    [p EXCEPT !.d = writePermanent(@, t),
              !.output = TermWrite(@, (IF p.d.streamingActive THEN <<"\n">> ELSE <<>>)
                                      \o t \o <<"\n">>)]

wakeMainLoop(p) ==
    IF p.wakeResolve # 0
    THEN [p EXCEPT !.resolved = @ \/ p.wakeResolve = p.sleepNo, !.wakeResolve = 0]
    ELSE p

startImessagePoller(p) == [p EXCEPT !.imessagePollerTimer = TRUE]

stopImessagePoller(p) == [p EXCEPT !.imessagePollerTimer = FALSE]

ShuttingDown ==
    <<"\n", " ", " ">> \o DIM
    \o <<"S", "h", "u", "t", "t", "i", "n", "g", " ", "d", "o", "w", "n", ".", ".", ".">>
    \o RESET \o <<"\n">>

\* A shutdown without the guard of line 1736.
shutdownUnguarded(p, closes) ==
    LET p0 == [p EXCEPT !.shutdownCalls = @ + 1]
        p1 == [p0 EXCEPT !.running = FALSE, !.shutdownRuns = @ + 1,
                         !.d = stopSpinner(@)]
        p2 == stopImessagePoller(p1)
        p3 == [p2 EXCEPT !.d = [EraseDynamic(@) EXCEPT !.promptVisible = FALSE]]
        p4 == IF isTTY THEN [p3 EXCEPT !.rawMode = FALSE] ELSE p3
        p5 == [p4 EXCEPT !.d = Write(@, ShuttingDown)]
    IN  [p5 EXCEPT !.exited = closes]

\* shutdown(); closes tells whether db.close() returns, so that process.exit(0)
\* is reached, or throws.
shutdown(p, closes) ==
    LET p0 == [p EXCEPT !.shutdownCalls = @ + 1] IN
    IF ~p0.running THEN p0
    ELSE LET p1 == [p0 EXCEPT !.running = FALSE, !.shutdownRuns = @ + 1,
                              !.d = stopSpinner(@)]
             p2 == stopImessagePoller(p1)
             p3 == [p2 EXCEPT !.d = [EraseDynamic(@) EXCEPT !.promptVisible = FALSE]]
             p4 == IF isTTY THEN [p3 EXCEPT !.rawMode = FALSE] ELSE p3
             p5 == [p4 EXCEPT !.d = Write(@, ShuttingDown)]
         IN  [p5 EXCEPT !.exited = closes]

\* "queued (queueNum pending)"
QueuedLabel(queueNum) ==
    <<"q", "u", "e", "u", "e", "d", " ", "(">> \o DecString(queueNum)
    \o <<" ", "p", "e", "n", "d", "i", "n", "g", ")">>

\* The line of lines 1693-1701.
QueuedLine(queueNum, line) ==
    LET queuePrefix == <<" ", " ", "CIRCLE", " ">> \o QueuedLabel(queueNum) \o <<" ">>
        maxQueueText == cols - Len(queuePrefix)
        queueDisplay == IF Len(line) > maxQueueText
                        THEN SubSeq(line, 1, maxQueueText - 1) \o <<"ELLIPSIS">>
                        ELSE line
    IN  <<" ", " ">> \o YELLOW \o <<"CIRCLE">> \o RESET \o <<" ">> \o DIM
        \o QueuedLabel(queueNum) \o RESET \o <<" ">> \o queueDisplay

\* A handler of Enter that completes the line whatever it ends with.
handleEnterAlways(p) ==
    LET line == StringTrim(p.d.inputBuffer)
        p1 == [p EXCEPT !.d.inputBuffer = <<>>]
    IN  IF line = <<>> THEN [p1 EXCEPT !.d = redrawPrompt(@)]
        ELSE [wakeMainLoop([p1 EXCEPT !.messageQueue =
                                Append(@, [text |-> line, source |-> "local"])])
                EXCEPT !.d = redrawPrompt(@), !.lineSinceSleep = TRUE]

\* The assignment to inputBuffer followed by redrawPrompt().
Retype(p, buffer) ==
    [p EXCEPT !.d = redrawPrompt([@ EXCEPT !.inputBuffer = buffer])]

handleEnter(p) ==
    LET buffer == p.d.inputBuffer IN
    IF EndsWith(buffer, <<"\\">>)
    THEN Retype(p, SubSeq(buffer, 1, Len(buffer) - 1) \o <<"\n">>)
    ELSE LET line == StringTrim(buffer)
             p1 == [p EXCEPT !.d.inputBuffer = <<>>]
         IN  IF line = <<>> THEN [p1 EXCEPT !.d = redrawPrompt(@)]
             ELSE LET p2 == [p1 EXCEPT !.messageQueue =
                                 Append(@, [text |-> line, source |-> "local"])]
                      p3 == [wakeMainLoop(p2) EXCEPT !.lineSinceSleep = TRUE]
                      p4 == IF p3.processing
                            THEN Log(p3, QueuedLine(Len(p3.messageQueue), line))
                            ELSE p3
                  IN  [p4 EXCEPT !.d = redrawPrompt(@)]

handleChar(p, ch, closes) ==
    LET code == CharCode(ch)
        buffer == p.d.inputBuffer
    IN  IF p.escapeSeq = 1
        THEN [p EXCEPT !.escapeSeq = IF ch = "[" THEN 2 ELSE 0]
        ELSE IF p.escapeSeq = 2 THEN [p EXCEPT !.escapeSeq = 0]
        ELSE IF code = 27 THEN [p EXCEPT !.escapeSeq = 1]
        ELSE IF code = 3 THEN shutdown(p, closes)
        ELSE IF code = 4 /\ Len(buffer) = 0 THEN shutdown(p, closes)
        ELSE IF ch = "\r" \/ ch = "\n" THEN handleEnter(p)
        ELSE IF code = 127 \/ code = 8
        THEN IF Len(buffer) > 0
             THEN Retype(p, SubSeq(buffer, 1, Len(buffer) - 1))
             ELSE p
        ELSE IF code < 32 THEN p
        ELSE Retype(p, Append(buffer, ch))

\* The variables of the editor as main() leaves them (lines 1254, 1257, 1362,
\* 1404-1408, 1641, 1727, 1733), before the main loop has slept.
EditorIdle ==
    /\ escapeSeq = 0
    /\ messageQueue = <<>>
    /\ running = TRUE
    /\ processing = FALSE
    /\ imessagePollerTimer = FALSE
    /\ isTTY = TRUE
    /\ rawMode = TRUE
    /\ readerAlive = TRUE
    /\ exited = FALSE
    /\ wakeResolve = 0
    /\ sleepNo = 0
    /\ resolved = FALSE
    /\ shutdownCalls = 0
    /\ shutdownRuns = 0
    /\ keys = 0
    /\ fed = <<>>
    /\ lastKey = ""
    /\ triggered = FALSE
    /\ queued = FALSE

\* The first session (lines 1242-1252); a random UUID is its serial number.
SessionNew == [sessionId |-> <<"u", "1">>, isFirstMessage |-> TRUE]

\* The main loop before its first iteration, lines 1242-1258.
LoopIdle ==
    /\ loopPc = "sleep"
    /\ sleepTimers = {}
    /\ compacting = FALSE
    /\ sending = ""
    /\ firstOutputFired = FALSE
    /\ firstOutputs = 0
    /\ batches = <<>>
    /\ resultText = FALSE
    /\ lines = 0
    /\ session = SessionNew
    /\ uuids = 1
    /\ invocations = <<>>
    /\ unreported = 0
    /\ arrived = 0
    /\ lineSinceSleep = FALSE
    /\ timedOut = FALSE

----------------------------------------------------------------------------
(* The IMessageDatabase class, unnamed/part_001 lines 152-427.  b holds    *)
(* the message table of chat.db (rows, the ROWID of a row is its position: *)
(* ROWIDs are handed out in increasing order), the fields lastRowId and    *)
(* processedRowIds of the object, and what getNewMessages has returned.    *)

\* if (this.processedRowIds.size > 1000): keep the last 500
PruneAbove == 1000
PruneKeep == 500
\* markRecentAsProcessed: ROWID > lastRowId - 5 ... LIMIT 50
RecentBack == 5
RecentLimit == 50
\* advanceCursorWithDelay: for (let i = 0; i < 3; i++)
DelayPolls == 3

\* A row of the message table: is_from_me, whether the handle is the
\* contact's, whether a text can be extracted, and the number of rows of
\* chat_message_join that name it.
Row(fromMe, sender, hasText, chats) ==
    [fromMe |-> fromMe, sender |-> sender, text |-> hasText, chats |-> chats]

\* new IMessageDatabase() on a message table
DbNew(rows) ==
    [rows |-> rows, lastRowId |-> 0, processedRowIds |-> {},
     returned |-> <<>>, batch |-> <<>>, gets |-> 0, prunes |-> 0,
     afterPrune |-> FALSE, polls |-> 0, inserts |-> 0, calls |-> 0, initial |-> 0]

\* SELECT MAX(ROWID) as maxId FROM message; row?.maxId ?? 0
MaxRowId(b) == Len(b.rows)

\* initialize()
initialize(b) == [b EXCEPT !.lastRowId = MaxRowId(b), !.initial = MaxRowId(b)]

\* The rows of the query of getNewMessages with ROWID in lo..hi, ascending;
\* the LEFT JOIN on chat_message_join yields a row once per chat.
RECURSIVE NewRows(_, _, _)
NewRows(b, lo, hi) ==
    IF lo > hi THEN <<>>
    ELSE IF lo = hi
    THEN IF ~b.rows[lo].fromMe /\ b.rows[lo].sender = "contact"
         THEN Rep(lo, Max(1, b.rows[lo].chats)) ELSE <<>>
    ELSE LET mid == (lo + hi) \div 2
         IN  NewRows(b, lo, mid) \o NewRows(b, mid + 1, hi)

\* One iteration of for (const row of rows); messages holds the rowIds.
NewRow(st, rowId) ==
    IF rowId \in st.processedRowIds THEN st
    ELSE LET seen == [st EXCEPT !.lastRowId = Max(rowId, @)] IN
         IF ~st.rows[rowId].text THEN seen
         ELSE [seen EXCEPT !.processedRowIds = @ \cup {rowId},
                           !.batch = Append(@, rowId)]

\* The iterations lo..hi of the loop; the first half is computed before
\* the second is entered.
RECURSIVE NewRowsLoop(_, _, _, _)
NewRowsLoop(st, q, lo, hi) ==
    IF lo > hi THEN st
    ELSE IF lo = hi THEN NewRow(st, q[lo])
    ELSE LET mid == (lo + hi) \div 2
             u   == NewRowsLoop(st, q, lo, mid)
         IN  IF u.lastRowId >= 0 THEN NewRowsLoop(u, q, mid + 1, hi) ELSE u

\* The least c in lo..hi with at most keep members of S above it.
RECURSIVE SortedCut(_, _, _, _)
SortedCut(S, keep, lo, hi) ==
    IF lo >= hi THEN lo
    ELSE LET mid == (lo + hi) \div 2 IN
         IF Cardinality({o \in S : o > mid}) <= keep
         THEN SortedCut(S, keep, lo, mid) ELSE SortedCut(S, keep, mid + 1, hi)

\* Prune old processed ROWIDs: sort them and delete all but the last
\* PruneKeep.
Prune(b) ==
    IF Cardinality(b.processedRowIds) > PruneAbove
    THEN LET cut == SortedCut(b.processedRowIds, PruneKeep, 0, Len(b.rows))
         IN  [b EXCEPT !.processedRowIds = {id \in @ : id > cut}, !.prunes = @ + 1]
    ELSE b

\* getNewMessages(contact) without the update of lastRowId in the loop.
getNewMessagesKeepsCursor(b) ==
    LET q == NewRows(b, b.lastRowId + 1, Len(b.rows))
        looped == NewRowsLoop([b EXCEPT !.batch = <<>>], q, 1, Len(q))
        done == Prune([looped EXCEPT !.lastRowId = b.lastRowId])
    IN  [done EXCEPT !.returned = @ \o done.batch, !.gets = @ + 1,
                     !.afterPrune = b.prunes > 0]

\* getNewMessages(contact); batch is the list it returns.
getNewMessages(b) ==
    LET q == NewRows(b, b.lastRowId + 1, Len(b.rows))
        looped == NewRowsLoop([b EXCEPT !.batch = <<>>], q, 1, Len(q))
        done == Prune(looped)
    IN  [done EXCEPT !.returned = @ \o done.batch, !.gets = @ + 1,
                     !.afterPrune = b.prunes > 0]

\* advanceCursor()
advanceCursor(b) ==
    IF MaxRowId(b) # 0 /\ MaxRowId(b) > b.lastRowId
    THEN [b EXCEPT !.lastRowId = MaxRowId(b)] ELSE b

\* markRecentAsProcessed(): the first RecentLimit outgoing rows above
\* lastRowId - RecentBack.
markRecentAsProcessed(b) ==
    LET mine == {id \in 1..Len(b.rows) :
                    id > b.lastRowId - RecentBack /\ b.rows[id].fromMe}
        marked == {id \in mine : Cardinality({o \in mine : o < id}) < RecentLimit}
    IN  [b EXCEPT !.processedRowIds = @ \cup marked,
                  !.lastRowId = IF marked = {} THEN @
                                ELSE Max(@, CHOOSE id \in marked : \A o \in marked : o <= id)]

\* advanceCursorWithDelay() up to its first await; polls counts the
\* timeouts it still awaits.
advanceCursorWithDelay(b) ==
    [markRecentAsProcessed(advanceCursor(b)) EXCEPT !.polls = DelayPolls]

\* advanceCursorWithDelay() after one of its timeouts.
delayPoll(b) ==
    [markRecentAsProcessed(advanceCursor(b)) EXCEPT !.polls = @ - 1]

\* The database object after db.initialize() on an empty message table.
DbIdle == imdb = initialize(DbNew(<<>>))

----------------------------------------------------------------------------
(* Echo detection, cli.ts lines 1302-1322.  e holds the map recentlySent   *)
(* (fingerprint to the time it was set), the clock Date.now() in           *)
(* milliseconds, every (fingerprint, time) trackSent has recorded, and of  *)
(* the last filter(msg => !isEcho(msg.text)) the texts, the outcome, the   *)
(* time and what had been tracked by then.                                 *)

\* now - ts > 300_000
EchoWindow == 300000
\* text.slice(0, 150)
FingerprintLen == 150

EchoNew ==
    [recentlySent |-> <<>>, now |-> 0, tracked |-> {},
     texts |-> <<>>, passed |-> <<>>, at |-> 0, known |-> {}, steps |-> 0]

\* Echo detection before the first message is tracked.
EchoIdle == echo = EchoNew

\* processMessages before its first batch.
TurnNew ==
    [batch |-> <<>>, handled |-> FALSE, cmd |-> <<>>, spawned |-> FALSE,
     prompt |-> <<>>]

TurnIdle == turn = TurnNew

----------------------------------------------------------------------------
(* StreamState, cli.ts lines 669-697, of one runClaudeStreaming call: the   *)
(* fields the text handlers use.  With it are kept the events received so  *)
(* far (deltas per text block, the block being streamed, the blocks whose  *)
(* content_block_stop and whose assistant message have arrived) and the    *)
(* calls of writeOutput and console.log, each with the block whose text it *)
(* carries (0 for labels and blank lines).                                 *)

newStreamState ==
    [currentTextChunks |-> <<>>, textStarted |-> FALSE, assistantCol |-> 0,
     mdRenderer |-> MdNew,
     deltas |-> [b \in 1..MaxBlocks |-> 0], open |-> 0, stopped |-> {},
     delivered |-> 0, apart |-> TRUE, calls |-> <<>>]

StreamIdle == stream = newStreamState

\* sendIMessage before its first call.
SendIdle ==
    /\ message = <<>>
    /\ chunks = <<>>
    /\ handed = <<>>
    /\ sendPc = "idle"
    /\ splitTrail = <<>>
    /\ attempts = <<>>

\* The iMessage side of the bridge before its first call.
BridgeIdle == SendIdle /\ DbIdle /\ EchoIdle /\ TurnIdle /\ StreamIdle

\* The program after a step.
ProgramIs(p) ==
    /\ DisplayIs(p.d)
    /\ output = p.output
    /\ escapeSeq = p.escapeSeq
    /\ messageQueue = p.messageQueue
    /\ running = p.running
    /\ processing = p.processing
    /\ imessagePollerTimer = p.imessagePollerTimer
    /\ rawMode = p.rawMode
    /\ readerAlive = p.readerAlive
    /\ exited = p.exited
    /\ wakeResolve = p.wakeResolve
    /\ sleepNo = p.sleepNo
    /\ resolved = p.resolved
    /\ shutdownCalls = p.shutdownCalls
    /\ shutdownRuns = p.shutdownRuns
    /\ loopPc = p.loopPc
    /\ sleepTimers = p.sleepTimers
    /\ compacting = p.compacting
    /\ sending = p.sending
    /\ firstOutputFired = p.firstOutputFired
    /\ firstOutputs = p.firstOutputs
    /\ batches = p.batches
    /\ resultText = p.resultText
    /\ lines = p.lines
    /\ session = p.session
    /\ uuids = p.uuids
    /\ invocations = p.invocations
    /\ unreported = p.unreported
    /\ lineSinceSleep = p.lineSinceSleep
    /\ timedOut = p.timedOut

----------------------------------------------------------------------------
(* wrapAssistantText, cli.ts lines 734-778.                                *)

ASSISTANT_INDENT == Rep(" ", 16)

WrapBreak == <<"\n">> \o ASSISTANT_INDENT

\* The wrap test of line 768.
WrapDue(col) == col >= cols

\* Lines 747-763: ESC is copied; ESC [ is followed by its parameter bytes and one
\* final byte; the loop's i++ then steps over one more character.
WrapEscapeIn(t, w) ==
    LET n == Len(t)
        i1 == w.i + 1
    IN  IF i1 <= n /\ t[i1] = "["
        THEN LET j == FirstNotIn(t, ParamBytes, i1 + 1)
                 copied == <<ESC>> \o SubSeq(t, i1, Min(j, n))
             IN  [w EXCEPT !.result = @ \o copied, !.i = j + 1]
        ELSE [w EXCEPT !.result = Append(@, ESC), !.i = i1 + 1]

\* One iteration of the loop of lines 745-775.
WrapStepIn(t, w) ==
    LET ch == t[w.i] IN
    IF ch = ESC THEN WrapEscapeIn(t, w)
    ELSE IF ch = "\n"
    THEN [w EXCEPT !.result = @ \o WrapBreak, !.col = Len(ASSISTANT_INDENT), !.i = @ + 1]
    ELSE IF WrapDue(w.col)
    THEN [w EXCEPT !.result = @ \o WrapBreak \o <<ch>>,
                   !.col = Len(ASSISTANT_INDENT) + 1, !.i = @ + 1]
    ELSE [w EXCEPT !.result = Append(@, ch), !.col = @ + 1, !.i = @ + 1]

RECURSIVE WrapLoopIn(_, _)
WrapLoopIn(t, w) == IF w.i > Len(t) THEN w ELSE WrapLoopIn(t, WrapStepIn(t, w))

\* The same on the argument of the call being checked.
WrapEscape(w) == WrapEscapeIn(text, w)

WrapStep(w) == WrapStepIn(text, w)

WrapLoop(w) == WrapLoopIn(text, w)

\* wrapAssistantText(t, col) as a value: { wrapped, endCol }.
Wrap(t, col) ==
    LET w == WrapLoopIn(t, [i |-> 1, col |-> col, result |-> <<>>]) IN
    [wrapped |-> w.result, endCol |-> w.col]

----------------------------------------------------------------------------
(* wrapAssistantText applied to one text at one start column.              *)

WrapAlphabet == {"a", "\n", "\r", ESC, "[", "1", "m"}

WrapTexts == UNION {[1..n -> WrapAlphabet] : n \in 0..MaxWrapLen}

Widths == {16, 18}

MdIdle ==
    /\ mdRenderer = MdNew
    /\ mdOp = "new"
    /\ mdChunk = <<>>
    /\ mdOut = <<>>
    /\ mdPre = MdNew
    /\ mdText = <<>>
    /\ mdAcc = <<>>
    /\ mdPushes = 0
    /\ mdTwin = TwinNone

WrapIdle ==
    /\ text = <<>>
    /\ startCol = 0
    /\ wrapped = <<>>
    /\ endCol = 0
    /\ wrapCalled = FALSE

WrapInit ==
    /\ cols \in Widths
    /\ text \in WrapTexts
    /\ startCol \in 0..cols
    /\ wrapped = <<>>
    /\ endCol = 0
    /\ wrapCalled = FALSE
    /\ MdIdle
    /\ DisplayIdle
    /\ EditorIdle
    /\ LoopIdle
    /\ BridgeIdle

wrapAssistantText ==
    /\ ~wrapCalled
    /\ LET w == WrapLoop([i |-> 1, col |-> startCol, result |-> <<>>]) IN
       /\ wrapped' = w.result
       /\ endCol' = w.col
    /\ wrapCalled' = TRUE
    /\ UNCHANGED <<cols, bridgeVars, text, startCol, mdVars, displayVars, editorVars, loopVars>>

WrapNext == wrapAssistantText

SpecWrap == WrapInit /\ [][WrapNext]_vars

----------------------------------------------------------------------------
(* The renderer driven chunk by chunk.                                     *)

LongRun == Rep("a", LongLen)

Fence3Line == <<"BQ", "BQ", "BQ", "\n">>
Fence4Line == <<"BQ", "BQ", "BQ", "BQ", "\n">>
Fence5Line == <<"BQ", "BQ", "BQ", "BQ", "BQ", "\n">>

MdChunks ==
    { <<"a">>, <<"\n">>, <<"*">>, <<"*", "*">>, <<"BQ">>, <<"BQ", "BQ", "BQ">>,
      Fence3Line, Fence4Line, Fence5Line, <<"#", " ">>, <<"[">>, LongRun }

MdInit ==
    /\ cols = 80
    /\ mdRenderer = MdNew
    /\ mdOp = "new"
    /\ mdChunk = <<>>
    /\ mdOut = <<>>
    /\ mdPre = MdNew
    /\ mdText = <<>>
    /\ mdAcc = <<>>
    /\ mdPushes = 0
    /\ mdTwin = TwinNone
    /\ WrapIdle
    /\ DisplayIdle
    /\ EditorIdle
    /\ LoopIdle
    /\ BridgeIdle

MdPushCall(chunk) ==
    /\ mdOp # "flush"
    /\ mdPushes < MaxPushes
    /\ LET p == MdPush(mdRenderer, chunk) IN
       /\ mdRenderer' = p.r
       /\ mdOut' = p.out
       /\ mdAcc' = mdAcc \o p.out
    /\ mdOp' = "push"
    /\ mdChunk' = chunk
    /\ mdPre' = mdRenderer
    /\ mdText' = mdText \o chunk
    /\ mdPushes' = mdPushes + 1
    /\ UNCHANGED <<cols, bridgeVars, mdTwin, wrapVars, displayVars, editorVars, loopVars>>

MdFlushCall ==
    /\ mdOp # "flush"
    /\ LET f == MdFlush(mdRenderer) IN
       /\ mdRenderer' = f.r
       /\ mdOut' = f.out
       /\ mdAcc' = mdAcc \o f.out
    /\ mdOp' = "flush"
    /\ mdPre' = mdRenderer
    /\ UNCHANGED <<cols, bridgeVars, mdChunk, mdText, mdPushes, mdTwin, wrapVars,
                   displayVars, editorVars, loopVars>>

MdNext ==
    \/ \E chunk \in MdChunks : MdPushCall(chunk)
    \/ MdFlushCall

SpecMd == MdInit /\ [][MdNext]_vars

----------------------------------------------------------------------------
(* The display driven by its operations in any order.  Every function runs *)
(* to completion before the next event is handled, so each is one step.    *)

\* What main() prints before the first prompt (lines 1239-1356), as one line.
Banner == <<"b", "\n">>

\* main() up to the initial redrawPrompt() of line 1730, with some text typed.
Init ==
    /\ cols = 80
    /\ \E typed \in InputBuffers :
          DisplayIs(redrawPrompt(Write([DisplayNew EXCEPT !.inputBuffer = typed],
                                       Banner)))
    /\ output = TermWrite(TermEmpty, Banner)
    /\ lastOp = "redrawPrompt"
    /\ atStart = NoTerm
    /\ MdIdle
    /\ WrapIdle
    /\ EditorIdle
    /\ LoopIdle
    /\ BridgeIdle

\* The line being streamed has columns left.
LineRoom == Len(output.rows[output.r]) < MaxLineLen

\* The step op leaves the display d and the written text out; the rows of
\* the terminal are capped.
Becomes(d, op, out) ==
    /\ Len(d.term.rows) <= MaxRows
    /\ Len(out.rows) <= MaxRows
    /\ inputBuffer' = d.inputBuffer
    /\ term' = d.term
    /\ dynamicLineCount' = d.dynamicLineCount
    /\ spinnerTimer' = d.spinnerTimer
    /\ intervals' = d.intervals
    /\ streamingCol' = d.streamingCol
    /\ streamingActive' = d.streamingActive
    /\ spinnerFrame' = d.spinnerFrame
    /\ promptVisible' = d.promptVisible
    /\ output' = out
    /\ lastOp' = op
    /\ atStart' = IF op = "startSpinner" /\ Idle THEN term
                  ELSE IF op = "clearSpinner" /\ lastOp = "startSpinner" THEN atStart
                  ELSE NoTerm
    /\ triggered' = FALSE
    /\ UNCHANGED <<cols, bridgeVars, mdVars, wrapVars, escapeSeq, messageQueue, running,
                   processing, imessagePollerTimer, isTTY, rawMode, readerAlive,
                   exited, wakeResolve, sleepNo, resolved, shutdownCalls,
                   shutdownRuns, keys, fed, lastKey, queued, loopVars>>

StartSpinnerCall ==
    /\ intervals < MaxIntervals
    /\ Becomes(startSpinner(Display), "startSpinner", output)

ClearSpinnerCall ==
    /\ Becomes(clearSpinner(Display), "clearSpinner", output)

RedrawPromptCall ==
    /\ Becomes(redrawPrompt(Display), "redrawPrompt", output)

WriteStreamingCall(t) ==
    /\ LineRoom
    /\ Becomes(writeStreaming(Display, t), "writeStreaming", TermWrite(output, t))

WritePermanentCall(t) ==
    /\ Becomes(writePermanent(Display, t), "writePermanent",
               TermWrite(output, (IF streamingActive THEN <<"\n">> ELSE <<>>)
                                 \o t \o <<"\n">>))

\* A live interval fires; the ticks since the last startSpinner are capped.
SpinnerTickFires ==
    /\ ~exited
    /\ intervals > 0
    /\ spinnerFrame < MaxTicks
    /\ Becomes(SpinnerTick(Display), "tick", output)

Next ==
    \/ StartSpinnerCall
    \/ ClearSpinnerCall
    \/ RedrawPromptCall
    \/ \E t \in StreamTexts : WriteStreamingCall(t)
    \/ \E t \in PermanentTexts : WritePermanentCall(t)
    \/ SpinnerTickFires

Spec == Init /\ [][Next]_vars

----------------------------------------------------------------------------
(* Claims about the display, checked under Spec.                           *)

\* The rows without the blank rows at the bottom.
Trim(rows) ==
    LET used == {k \in 1..Len(rows) : rows[k] # <<>>} IN
    IF used = {} THEN <<>>
    ELSE SubSeq(rows, 1, CHOOSE k \in used : \A m \in used : m <= k)

\* The cells of the prompt line.
PromptCells ==
    TermWrite(TermEmpty, PromptPrefix(Display) \o getVisibleInput(Display)).rows[1]

\* The screen after the next erase, eraseLines(dynamicLineCount).
Erased == TermWrite(term, EraseText(dynamicLineCount) \o <<"\r">>)

\* C2: an erase clears as many rows as the last redraw recorded in
\* dynamicLineCount, and those rows are exactly the dynamic ones: what the
\* erase leaves on the screen is the permanent and streamed text written so far.
C2_EraseSymmetry ==
    Trim(Erased.rows) = Trim(output.rows)

\* C3: the spinner timer and streamingActive are never both set, and after
\* writeStreaming the display is Streaming: the text written so far with the
\* prompt alone on the row below it.
C3_OneDisplay ==
    /\ ~(spinnerTimer /\ streamingActive)
    /\ lastOp = "writeStreaming" =>
          /\ streamingActive
          /\ dynamicLineCount = 1
          /\ term.r > 1
          /\ term.rows[term.r] = PromptCells
          /\ Trim(SubSeq(term.rows, 1, term.r - 1)) = Trim(output.rows)

\* C4: between handlers dynamicLineCount is 2 exactly when the spinner timer is
\* set and 1 otherwise, never 0.
C4_LineCount ==
    dynamicLineCount = IF spinnerTimer THEN 2 ELSE 1

\* C5: from Idle, startSpinner() then clearSpinner() restores the display: the
\* same prompt line on the same row with the cursor where it was, the rows above
\* unchanged, dynamicLineCount = 1 and no spinner timer.
C5_RoundTrip ==
    (lastOp = "clearSpinner" /\ atStart # NoTerm) =>
        /\ Trim(term.rows) = Trim(atStart.rows)
        /\ term.r = atStart.r
        /\ term.c = atStart.c
        /\ term.rows[term.r] = PromptCells
        /\ dynamicLineCount = 1
        /\ ~spinnerTimer

\* A round trip completed below permanent output with text in the edit buffer.
C5_Witness ==
    /\ lastOp = "clearSpinner"
    /\ atStart # NoTerm
    /\ inputBuffer # <<>>
    /\ term.r > 1
    /\ term.rows[1] # <<>>

----------------------------------------------------------------------------
(* Claims about wrapAssistantText, checked under SpecWrap.                 *)

\* The text without the characters a wrap break is made of.
Unbroken(s) == SelectSeq(s, LAMBDA c : c \notin {"\n", " "})

\* The positions of s outside control sequences (ESC, [, parameter bytes, one
\* final byte), reading s from position i.
RECURSIVE PlainPositions(_, _)
PlainPositions(s, i) ==
    IF i > Len(s) THEN {}
    ELSE IF s[i] = ESC /\ i + 1 <= Len(s) /\ s[i + 1] = "["
    THEN PlainPositions(s, Min(FirstNotIn(s, ParamBytes, i + 2), Len(s)) + 1)
    ELSE {i} \cup PlainPositions(s, i + 1)

\* Text whose control sequences are complete SGR sequences (ESC [ digits m) and
\* whose other characters are printable or line feeds.
RECURSIVE SgrText(_, _)
SgrText(s, i) ==
    IF i > Len(s) THEN TRUE
    ELSE IF s[i] = ESC
    THEN /\ i + 1 <= Len(s) /\ s[i + 1] = "["
         /\ LET j == FirstNotIn(s, Digits, i + 2) IN
            j <= Len(s) /\ s[j] = "m" /\ SgrText(s, j + 1)
    ELSE s[i] # "\r" /\ SgrText(s, i + 1)

\* C9: every control sequence is copied unchanged and in place, no character of
\* the input is dropped from the output, and the column advances by one for each
\* character outside control sequences and by zero for the bytes of a sequence.
C9_CopiesEverything ==
    wrapCalled =>
        /\ Unbroken(wrapped) = Unbroken(text)
        /\ (Count(wrapped, "\n") = 0 /\ \A k \in 1..Len(text) : text[k] # ESC) =>
               endCol = startCol + Len(text)
        /\ (Count(wrapped, "\n") = 0 /\ SgrText(text, 1)) =>
               endCol = startCol + Cardinality(PlainPositions(text, 1))

\* The terminal after the wrapped text is written at column startCol of a row.
WrapScreen ==
    TermWrite(TermAt(<<Rep("x", startCol)>>, 1, startCol), wrapped)

WrapBreaks == Count(wrapped, "\n") - Count(text, "\n")

\* What C10 states of one call.
WrapLaw ==
    LET t == WrapScreen
        visible == Cardinality({k \in PlainPositions(text, 1) : text[k] # "\n"})
    IN  /\ Len(t.rows) = 1 + Count(wrapped, "\n")
        /\ \A k \in 1..Len(t.rows) : Len(t.rows[k]) <= cols
        /\ t.c = endCol
        /\ Count(text, "\n") = 0 =>
              /\ \A k \in 1..(Len(t.rows) - 1) : Len(t.rows[k]) = cols
              /\ startCol + visible <= cols => WrapBreaks = 0
              /\ (startCol + visible > cols /\
                  Len(ASSISTANT_INDENT) + visible - (cols - startCol) <= cols) =>
                     WrapBreaks = 1

\* C10: for any text and any startCol not above the width, a break is inserted
\* exactly when the column has reached the width, no output line carries more
\* than width columns, endCol is the real column after the last character, and
\* a run that crosses the width once gets exactly one break.
C10_WrapAnyText ==
    wrapCalled => WrapLaw

\* The same law on a terminal wider than the 16-column indent, for text made of
\* printable characters, line feeds and complete SGR sequences.
WrapLawWideSgr ==
    (wrapCalled /\ cols > Len(ASSISTANT_INDENT) /\ SgrText(text, 1)) => WrapLaw

----------------------------------------------------------------------------
(* Claims about the renderer, checked under SpecMd.                        *)

\* C1: for every text and every partition of it into chunks, the push outputs
\* over the chunks followed by flush() equal push(wholeText) + flush() on a fresh
\* renderer.
C1_ChunkInvariance ==
    mdOp = "flush" => mdAcc = MdWhole(mdText)

MdAnyOpen(r) == r.bold \/ r.italic \/ r.inCode \/ r.inCodeBlock

\* C6: when bold, italic, inline code or a fenced block is open, flush() returns
\* text that ends with the full-reset code and leaves every flag cleared, pending
\* empty and atLineStart true.
C6_FlushClosesStyles ==
    (mdOp = "flush" /\ MdAnyOpen(mdPre)) =>
        /\ EndsWith(mdOut, RESET)
        /\ ~mdRenderer.bold /\ ~mdRenderer.italic
        /\ ~mdRenderer.inCode /\ ~mdRenderer.inCodeBlock
        /\ mdRenderer.pending = <<>>
        /\ mdRenderer.atLineStart

\* A flush of an unterminated fenced block that holds text.
C6_Witness ==
    /\ mdOp = "flush"
    /\ mdPre.inCodeBlock /\ ~mdPre.bold /\ ~mdPre.italic /\ ~mdPre.inCode
    /\ mdPre.pending = <<>>
    /\ mdPushes >= 2

\* The positions of input that start a line, given whether position 1 does.
LineStarts(input, first) ==
    {k \in 1..Len(input) : IF k = 1 THEN first ELSE input[k - 1] = "\n"}

\* The length of the run of one fence character at k (0 when there is none).
FenceRunAt(input, k) ==
    IF input[k] \notin {"BQ", "~"} THEN 0 ELSE FirstNotIn(input, {input[k]}, k) - k

MdInput == mdPre.pending \o mdChunk

\* C7: a block opened by N fence characters is closed only by a line-start run
\* of at least N: a push into an open block whose input has no such run leaves
\* the block open and returns the input as content, and one that has such a run
\* emits the reset that closes the block; with N = 4 a line of 3 backquotes is
\* content and a line of 4 or of 5 closes.
C7_FenceMatching ==
    (mdOp = "push" /\ mdPre.inCodeBlock) =>
        LET closing == {k \in LineStarts(MdInput, mdPre.atLineStart) :
                            FenceRunAt(MdInput, k) >= mdPre.codeBlockTicks}
        IN  /\ closing = {} =>
                  mdRenderer.inCodeBlock /\ mdOut = MdInput
                  /\ mdRenderer.codeBlockTicks = mdPre.codeBlockTicks
            /\ closing # {} =>
                  SubSeq(mdOut, SetMin(closing), SetMin(closing) + 3) = RESET
            /\ (mdPre.codeBlockTicks = 4 /\ mdPre.pending = <<>> /\ mdPre.atLineStart) =>
                  /\ mdChunk = Fence3Line => mdRenderer.inCodeBlock /\ mdOut = Fence3Line
                  /\ mdChunk \in {Fence4Line, Fence5Line} =>
                        ~mdRenderer.inCodeBlock /\ mdOut = RESET

\* A line of 3 backquotes pushed into a block that 4 backquotes opened.
C7_Witness ==
    /\ mdOp = "push"
    /\ mdPre.inCodeBlock /\ mdPre.codeBlockTicks = 4
    /\ mdPre.pending = <<>> /\ mdPre.atLineStart
    /\ mdChunk = Fence3Line
    /\ mdRenderer.inCodeBlock

\* C8: after every push the pending buffer holds at most about 500 characters.
C8_PendingBounded ==
    mdOp = "push" => Len(mdRenderer.pending) <= LinkTargetWindow

----------------------------------------------------------------------------
(* The editor driven by keystrokes and signals, with the main loop asleep  *)
(* or inside processMessages.  The characters of one chunk are handled in  *)
(* a row (lines 1635-1637), so the main loop need not run between them.    *)

\* The keystrokes of the continuation example.
Continuation == <<"a", "\\", "\r", "b", "\r">>

IsPrefix(s, t) == Len(s) <= Len(t) /\ SubSeq(t, 1, Len(s)) = s

\* The value of fed once the keystrokes have left Continuation.
Strayed == <<"other">>

EdKeys == {"a", "b", "\\", "\r", ESC, "[", "ETX", "EOT", "DEL", "\t"}

\* Where the keystrokes find the program: at the prompt with the main loop
\* asleep, or inside processMessages while the agent thinks, while it streams,
\* or while it thinks after an earlier spinner was left running.
EdModes == {"idle", "thinking", "streaming", "leaked"}

\* The program in one of modes, on a terminal or not as ttys tell.
EdStartAt(width, modes, ttys) ==
    /\ cols = width
    /\ BridgeIdle
    /\ \E banner \in {Write(DisplayNew, Banner)} :
       \E prompt \in {redrawPrompt(banner)} :
       \E thinking \in {startSpinner(prompt)} :
       \E cleared \in {clearSpinner(thinking)} :
       \E mode \in modes :
       \E d \in {CASE mode = "idle" -> prompt
                   [] mode = "thinking" -> thinking
                   [] mode = "streaming" -> writeStreaming(cleared, <<"s">>)
                   [] mode = "leaked" -> startSpinner(thinking)} :
          /\ DisplayIs(d)
          /\ processing = (mode # "idle")
          /\ imessagePollerTimer = (mode # "idle")
          /\ wakeResolve = (IF mode = "idle" THEN 1 ELSE 0)
          /\ loopPc = (IF mode = "idle" THEN "sleep" ELSE "agent")
          /\ sleepTimers = (IF mode = "idle" THEN {1} ELSE {})
          /\ lineSinceSleep = (mode # "idle")
          /\ firstOutputFired = (mode = "streaming")
          /\ firstOutputs = (IF mode = "streaming" THEN 1 ELSE 0)
          /\ batches = (IF mode = "idle" THEN <<>> ELSE << <<[text |-> <<"h", "i">>, source |-> "local"]>> >>)
          /\ lines = (IF mode = "streaming" THEN 1 ELSE 0)
          /\ invocations = (IF mode = "idle" THEN <<>>
                            ELSE <<[first |-> TRUE, sessionId |-> <<"u", "1">>]>>)
          /\ resolved = (mode # "idle")
    /\ output = TermWrite(TermEmpty, Banner)
    /\ lastOp = "new"
    /\ atStart = NoTerm
    /\ escapeSeq = 0
    /\ messageQueue = <<>>
    /\ running = TRUE
    /\ isTTY \in ttys
    /\ rawMode = isTTY
    /\ readerAlive = TRUE
    /\ exited = FALSE
    /\ sleepNo = 1
    /\ shutdownCalls = 0
    /\ shutdownRuns = 0
    /\ keys = 0
    /\ fed = <<>>
    /\ lastKey = ""
    /\ triggered = FALSE
    /\ queued = FALSE
    /\ compacting = FALSE
    /\ sending = ""
    /\ resultText = FALSE
    /\ session = SessionNew
    /\ uuids = 1
    /\ unreported = 0
    /\ arrived = 0
    /\ timedOut = FALSE
    /\ MdIdle
    /\ WrapIdle

\* The step leaves the program p.
ProgramBecomes(p) ==
    /\ inputBuffer' = p.d.inputBuffer
    /\ term' = p.d.term
    /\ dynamicLineCount' = p.d.dynamicLineCount
    /\ spinnerTimer' = p.d.spinnerTimer
    /\ intervals' = p.d.intervals
    /\ streamingCol' = p.d.streamingCol
    /\ streamingActive' = p.d.streamingActive
    /\ spinnerFrame' = p.d.spinnerFrame
    /\ promptVisible' = p.d.promptVisible
    /\ output' = p.output
    /\ escapeSeq' = p.escapeSeq
    /\ messageQueue' = p.messageQueue
    /\ running' = p.running
    /\ processing' = p.processing
    /\ imessagePollerTimer' = p.imessagePollerTimer
    /\ rawMode' = p.rawMode
    /\ readerAlive' = p.readerAlive
    /\ exited' = p.exited
    /\ wakeResolve' = p.wakeResolve
    /\ sleepNo' = p.sleepNo
    /\ resolved' = p.resolved
    /\ shutdownCalls' = p.shutdownCalls
    /\ shutdownRuns' = p.shutdownRuns
    /\ loopPc' = p.loopPc
    /\ sleepTimers' = p.sleepTimers
    /\ compacting' = p.compacting
    /\ sending' = p.sending
    /\ firstOutputFired' = p.firstOutputFired
    /\ firstOutputs' = p.firstOutputs
    /\ batches' = p.batches
    /\ resultText' = p.resultText
    /\ lines' = p.lines
    /\ session' = p.session
    /\ uuids' = p.uuids
    /\ invocations' = p.invocations
    /\ unreported' = p.unreported
    /\ lineSinceSleep' = p.lineSinceSleep
    /\ timedOut' = p.timedOut
    /\ triggered' = (p.shutdownCalls > shutdownCalls)
    /\ queued' = (Len(p.messageQueue) > Len(messageQueue))

\* Whether shutdown ran its body in the step to q and db.close() threw.
Threw(p, q) == q.shutdownRuns > p.shutdownRuns /\ ~q.exited

\* One character of a chunk in readStdinRaw (lines 1635-1637): an exception
\* of handleChar ends the reader, and line 1727 swallows it.
readStdinRaw(p, ch, closes) ==
    LET q == handleChar(p, ch, closes) IN
    IF Threw(p, q) THEN [q EXCEPT !.readerAlive = FALSE] ELSE q

\* SIGINT or SIGTERM (lines 1753-1754): an exception of the listener is
\* uncaught and ends the process.
OnSignal(p) ==
    LET q == shutdown(p, FALSE) IN
    IF Threw(p, q) THEN [q EXCEPT !.exited = TRUE] ELSE q

Keystroke(ch, closes) ==
    /\ ~exited
    /\ readerAlive
    /\ keys < MaxKeys
    /\ \E q \in {readStdinRaw(Program, ch, closes)} : ProgramBecomes(q)
    /\ keys' = keys + 1
    /\ fed' = IF fed # Strayed /\ IsPrefix(Append(fed, ch), Continuation)
              THEN Append(fed, ch) ELSE Strayed
    /\ lastKey' = ch
    /\ lastOp' = "handleChar"
    /\ atStart' = NoTerm
    /\ UNCHANGED <<cols, bridgeVars, isTTY, arrived, mdVars, wrapVars>>

Signal ==
    /\ ~exited
    /\ shutdownCalls < MaxShutdowns
    /\ \E q \in {OnSignal(Program)} : ProgramBecomes(q)
    /\ lastKey' = "SIGNAL"
    /\ lastOp' = "shutdown"
    /\ atStart' = NoTerm
    /\ UNCHANGED <<cols, bridgeVars, isTTY, arrived, keys, fed, mdVars, wrapVars>>

\* main() in a terminal of 80 columns.
EdStart(modes, ttys) == EdStartAt(80, modes, ttys)

\* Keystrokes at the prompt of an idle program.
EdInit == EdStart({"idle"}, {TRUE})

EdNext ==
    \/ \E ch \in EdKeys : \E closes \in BOOLEAN : Keystroke(ch, closes)
    \/ Signal

SpecEd == EdInit /\ [][EdNext]_vars

\* Shutdown from every mode, after a few keystrokes.
DownKeys == {"a", "\r", ESC, "ETX", "EOT"}

DownInit == EdStart(EdModes, BOOLEAN)

DownNext ==
    \/ /\ keys < MaxDownKeys
       /\ \E ch \in DownKeys : \E closes \in BOOLEAN : Keystroke(ch, closes)
    \/ Signal
    \/ SpinnerTickFires

SpecDown == DownInit /\ [][DownNext]_vars

----------------------------------------------------------------------------
(* processMessages, runClaudeStreaming and the main loop, cli.ts lines     *)
(* 479-651, 1034-1156, 1265-1270 and 1757-1953.  A step runs the code from *)
(* one await to the next.  Long fixed texts are shortened to a word.       *)

RED == <<ESC, "[", "3", "1", "m">>
GREEN == <<ESC, "[", "3", "2", "m">>

\* String.prototype.toLowerCase() on the characters of the model.
LowerCase(c) == IF c = "H" THEN "h" ELSE c

ToLowerCase(s) == [k \in 1..Len(s) |-> LowerCase(s[k])]

StartsWith(s, t) == Len(s) >= Len(t) /\ SubSeq(s, 1, Len(t)) = t

\* The first position >= from whose character is in set; Len(s)+1 if none.
FirstIn(s, set, from) ==
    LET hits == {k \in from..Len(s) : s[k] \in set} IN
    IF hits = {} THEN Len(s) + 1 ELSE SetMin(hits)

\* trimmed.split(/\s+/) of a trimmed string.
RECURSIVE SplitWords(_)
SplitWords(s) ==
    IF s = <<>> THEN <<>>
    ELSE LET e == FirstIn(s, WhiteSpace, 1)
             n == FirstNotIn(s, WhiteSpace, e)
         IN  <<SubSeq(s, 1, e - 1)>> \o SplitWords(SubSeq(s, n, Len(s)))

\* reply.split("\n")
RECURSIVE SplitLines(_)
SplitLines(s) ==
    LET e == FirstIn(s, {"\n"}, 1) IN
    IF e > Len(s) THEN <<s>>
    ELSE <<SubSeq(s, 1, e - 1)>> \o SplitLines(SubSeq(s, e + 1, Len(s)))

\* Array.prototype.join(sep)
RECURSIVE Join(_, _)
Join(parts, sep) ==
    IF parts = <<>> THEN <<>>
    ELSE IF Len(parts) = 1 THEN parts[1]
    ELSE parts[1] \o sep \o Join(Tail(parts), sep)

\* The n-th value of crypto.randomUUID().
Uuid(n) == <<"u">> \o DecString(n)

\* sessionId.slice(0, 8) followed by "..."
ShortId(id) == SubSeq(id, 1, Min(8, Len(id))) \o <<".", ".", ".">>

HELP_TEXT == <<"h", "e", "l", "p">>

\* The result of a command that only replies.
Replies(p, reply) ==
    [p |-> p, handled |-> TRUE, reply |-> reply, sendToClaude |-> FALSE,
     claudeMessage |-> <<>>]

handleSlashCommand(p, input) ==
    LET trimmed == StringTrim(input)
        parts == SplitWords(trimmed)
        cmd == ToLowerCase(parts[1])
        rest == Join(Tail(parts), <<" ">>)
        oldId == ShortId(p.session.sessionId)
    IN  IF ~StartsWith(trimmed, <<"/">>)
        THEN [p |-> p, handled |-> FALSE, reply |-> <<>>, sendToClaude |-> TRUE,
              claudeMessage |-> <<>>]
        ELSE IF cmd \in {<<"/", "h", "e", "l", "p">>, <<"/", "c", "o", "m", "m", "a", "n", "d", "s">>}
        THEN Replies(p, HELP_TEXT)
        ELSE IF cmd \in {<<"/", "n", "e", "w">>, <<"/", "r", "e", "s", "e", "t">>}
        THEN LET newId == ShortId(Uuid(p.uuids + 1))
                 p1 == [p EXCEPT !.session = [sessionId |-> Uuid(p.uuids + 1),
                                              isFirstMessage |-> TRUE],
                                 !.uuids = @ + 1]
             IN  Replies(Log(p1, <<" ", " ">> \o GREEN \o <<"CHECK">> \o RESET
                                 \o <<" ", "N", "e", "w", " ", "s", "e", "s", "s", "i", "o", "n", ":", " ">> \o DIM \o oldId
                                 \o <<" ", "ARROW", " ">> \o newId \o RESET),
                         <<"N", "e", "w", " ", "s", "e", "s", "s", "i", "o", "n", " ", "s", "t", "a", "r", "t", "e", "d", " ", "(">> \o newId \o <<")", ".">>)
        ELSE IF cmd = <<"/", "c", "o", "m", "p", "a", "c", "t">>
        THEN [p |-> Log(p, <<" ", " ">> \o YELLOW \o <<"WARN">> \o RESET
                           \o <<" ", "C", "o", "m", "p", "a", "c", "t", "i", "n", "g", " ", "c", "o", "n", "t", "e", "x", "t", ".", ".", ".">>),
              handled |-> TRUE, reply |-> <<>>, sendToClaude |-> TRUE,
              claudeMessage |-> <<"C", "O", "M", "P", "A", "C", "T", "_", "C", "O", "N", "T", "E", "X", "T">>]
        ELSE IF cmd = <<"/", "r", "e", "s", "u", "m", "e">>
        THEN IF rest = <<>>
             THEN Replies(p, <<"U", "s", "a", "g", "e", ":", " ", "/", "r", "e", "s", "u", "m", "e", " ", "<", "s", "e", "s", "s", "i", "o", "n", "-", "i", "d", ">">>)
             ELSE Replies(Log([p EXCEPT !.session = [sessionId |-> rest,
                                                     isFirstMessage |-> FALSE]],
                              <<" ", " ">> \o GREEN \o <<"CHECK">> \o RESET
                              \o <<" ", "R", "e", "s", "u", "m", "e", "d", " ", "s", "e", "s", "s", "i", "o", "n", ":", " ">> \o DIM \o oldId
                              \o <<" ", "ARROW", " ">> \o ShortId(rest) \o RESET),
                          <<"R", "e", "s", "u", "m", "e", "d", " ", "s", "e", "s", "s", "i", "o", "n", " ">> \o ShortId(rest))
        ELSE Replies(p, <<"U", "n", "k", "n", "o", "w", "n", " ", "c", "o", "m", "m", "a", "n", "d", ":", " ">> \o cmd)

\* The line processMessages prints for a message of the batch (lines 1764-1781).
MessageLine(msg) ==
    IF msg.source = "imessage"
    THEN LET prefixLen == 6 + Len(msg.time) + Len(msg.sender) + 2
             maxText == cols - prefixLen
             displayMsg == IF Len(msg.text) > maxText
                           THEN SubSeq(msg.text, 1, maxText - 1) \o <<"ELLIPSIS">>
                           ELSE msg.text
         IN  <<" ", " ">> \o BRIGHT_MAGENTA \o <<"STAR">> \o RESET \o <<" ">> \o DIM
             \o <<"[">> \o msg.time \o <<"]">> \o RESET \o <<" ">> \o BOLD
             \o msg.sender \o RESET \o <<":", " ">> \o displayMsg
    ELSE LET displayText == IF Len(msg.text) > cols - 13
                            THEN SubSeq(msg.text, 1, cols - 14) \o <<"ELLIPSIS">>
                            ELSE msg.text
         IN  <<" ", " ">> \o GREEN \o <<"PLAY">> \o RESET \o <<" ">> \o DIM
             \o <<"[", "l", "o", "c", "a", "l", "]">> \o RESET \o <<" ">> \o displayText

\* console.log of every line of logged.
RECURSIVE LogAll(_, _)
LogAll(p, logged) ==
    IF logged = <<>> THEN p ELSE LogAll(Log(p, Head(logged)), Tail(logged))

\* The head of runClaudeStreaming (lines 1041-1082): the session flags of the
\* command line are --session-id when first is true and -r otherwise.
Spawn(p) ==
    [p EXCEPT !.invocations = Append(@, [first |-> p.session.isFirstMessage,
                                         sessionId |-> p.session.sessionId]),
              !.firstOutputFired = FALSE, !.firstOutputs = 0,
              !.resultText = FALSE, !.lines = 0,
              !.loopPc = "agent"]

\* processMessages(batch) up to its first await.
processMessages(p, batch) ==
    LET header == <<Rep("RULE", 60)>>
                  \o [k \in 1..Len(batch) |-> MessageLine(batch[k])] \o << <<>> >>
        combined == Join([k \in 1..Len(batch) |-> batch[k].text], <<"\n", "\n">>)
    IN  Once(handleSlashCommand(LogAll([p EXCEPT !.batches = Append(@, batch)], header),
                                combined), LAMBDA cmdResult :
            IF cmdResult.handled /\ ~cmdResult.sendToClaude
            THEN [LogAll(cmdResult.p,
                         [k \in 1..Len(SplitLines(cmdResult.reply)) |->
                            <<" ", " ">> \o RED \o <<"BACK">> \o RESET \o <<" ">> \o DIM
                            \o SplitLines(cmdResult.reply)[k] \o RESET])
                    EXCEPT !.loopPc = "send", !.sending = "command"]
            ELSE Spawn([cmdResult.p EXCEPT
                          !.d = startSpinner(@),
                          !.compacting = (cmdResult.claudeMessage = <<"C", "O", "M", "P", "A", "C", "T", "_", "C", "O", "N", "T", "E", "X", "T">>)]))

\* An interruptibleSleep that keeps a resolver it finds.
interruptibleSleepKeeps(p, n) ==
    [p EXCEPT !.wakeResolve = IF @ # 0 THEN @ ELSE n, !.sleepNo = n,
              !.resolved = FALSE, !.sleepTimers = @ \cup {n},
              !.loopPc = "sleep", !.lineSinceSleep = FALSE,
              !.timedOut = FALSE]

\* interruptibleSleep(ms) as sleep number n, up to the await.
interruptibleSleep(p, n) ==
    [p EXCEPT !.wakeResolve = n, !.sleepNo = n, !.resolved = FALSE,
              !.sleepTimers = @ \cup {n}, !.loopPc = "sleep",
              !.lineSinceSleep = FALSE, !.timedOut = FALSE]

\* The main loop after processMessages has returned (lines 1930-1946), up to
\* the next await.
AfterBatch(p, n) ==
    IF p.running /\ p.messageQueue # <<>>
    THEN processMessages([p EXCEPT !.messageQueue = <<>>], p.messageQueue)
    ELSE LET p1 == [stopImessagePoller(p) EXCEPT !.processing = FALSE,
                                                 !.d.streamingActive = FALSE,
                                                 !.d.streamingCol = 0]
         IN  interruptibleSleep([p1 EXCEPT !.d = redrawPrompt(@)], n)

\* The final console.log("") of processMessages and its return.
Finish(p, n) == AfterBatch(Log(p, <<>>), n)

\* The catch blocks of lines 1838-1853 and 1885-1899, up to the await.
Catch(p) ==
    LET p1 == [p EXCEPT !.d = clearSpinner(@)]
        p2 == Log(p1, <<" ", " ">> \o RED \o <<"CROSS">>
                      \o (IF p.compacting THEN <<" ", "C", "o", "m", "p", "a", "c", "t", " ", "f", "a", "i", "l", "e", "d">> ELSE <<" ", "E", "r", "r", "o", "r">>)
                      \o RESET)
    IN  [p2 EXCEPT !.unreported = @ - 1, !.loopPc = "send",
                   !.sending = IF p.compacting THEN "compactError" ELSE "error"]

\* A main loop that copies the queue into the batch without emptying it.
mainLoopKeepsQueue(p, incoming, n) ==
    IF ~p.running THEN [p EXCEPT !.loopPc = "done"]
    ELSE IF p.processing THEN interruptibleSleep(p, n)
    ELSE LET p1 == [p EXCEPT !.messageQueue = @ \o incoming] IN
         IF p1.messageQueue = <<>> THEN interruptibleSleep(p1, n)
         ELSE processMessages(
                  [startImessagePoller(p1) EXCEPT !.processing = TRUE],
                  p1.messageQueue)

\* One iteration of the main loop from the top (lines 1906-1952); incoming is
\* what db.getNewMessages returns after the echo filter.
mainLoop(p, incoming, n) ==
    IF ~p.running THEN [p EXCEPT !.loopPc = "done"]
    ELSE IF p.processing THEN interruptibleSleep(p, n)
    ELSE LET p1 == [p EXCEPT !.messageQueue = @ \o incoming] IN
         IF p1.messageQueue = <<>> THEN interruptibleSleep(p1, n)
         ELSE processMessages(
                  [startImessagePoller(p1) EXCEPT !.processing = TRUE,
                                                  !.messageQueue = <<>>],
                  p1.messageQueue)

\* The callback of the poller (lines 1366-1385) for one new message.
PollerLine(queueNum, msg) ==
    LET prefix == <<" ", " ", "CIRCLE", " ">> \o QueuedLabel(queueNum) \o <<" ", "[">>
                  \o msg.time \o <<"]", " ">> \o msg.sender \o <<":", " ">>
        maxText == cols - Len(prefix)
        displayMsg == IF Len(msg.text) > maxText
                      THEN SubSeq(msg.text, 1, maxText - 1) \o <<"ELLIPSIS">>
                      ELSE msg.text
    IN  <<" ", " ">> \o YELLOW \o <<"CIRCLE">> \o RESET \o <<" ">> \o DIM
        \o QueuedLabel(queueNum) \o RESET \o <<" ">> \o DIM \o <<"[">> \o msg.time
        \o <<"]">> \o RESET \o <<" ">> \o BOLD \o msg.sender \o RESET \o <<":", " ">>
        \o displayMsg

RECURSIVE pollerCallback(_, _)
pollerCallback(p, incoming) ==
    IF incoming = <<>> THEN p
    ELSE LET p1 == [p EXCEPT !.messageQueue = Append(@, Head(incoming))] IN
         pollerCallback(Log(p1, PollerLine(Len(p1.messageQueue), Head(incoming))),
                        Tail(incoming))

\* writeOutput(t) of a stream event.
Stream(p, t) ==
    [p EXCEPT !.d = writeStreaming(@, t), !.output = TermWrite(@, t)]

\* A read loop that calls onFirstOutput for every line it parses.
agentLineCallsBack(p, kind, t) ==
    LET p0 == [p EXCEPT !.lines = @ + 1] IN
    IF kind = "malformed" THEN p0
    ELSE Once([p0 EXCEPT !.firstOutputFired = TRUE, !.firstOutputs = @ + 1,
                         !.d = clearSpinner(@)],
              LAMBDA p1 :
                IF kind = "event" THEN Stream(p1, t)
                ELSE [Log(p1, <<" ", " ">> \o DIM \o <<"CORNER", "RULE", " ">>
                              \o <<"t", "u", "r", "n", "s">> \o RESET)
                        EXCEPT !.resultText = TRUE])

\* One stdout line of the agent (lines 1097-1143): "event" is a stream event
\* that writes t, "result" the result event with a non-empty text, "malformed"
\* a line JSON.parse rejects.
agentLine(p, kind, t) ==
    LET p0 == [p EXCEPT !.lines = @ + 1] IN
    IF kind = "malformed" THEN p0
    ELSE Once(IF ~p0.firstOutputFired
              THEN [p0 EXCEPT !.firstOutputFired = TRUE, !.firstOutputs = @ + 1,
                              !.d = clearSpinner(@)]
              ELSE p0,
              LAMBDA p1 :
                IF kind = "event" THEN Stream(p1, t)
                ELSE [Log(p1, <<" ", " ">> \o DIM \o <<"CORNER", "RULE", " ">>
                              \o <<"t", "u", "r", "n", "s">> \o RESET)
                        EXCEPT !.resultText = TRUE])

\* The agent has exited with exitCode (lines 1146-1155), and processMessages
\* runs on to its next await or to its end (lines 1811-1836, 1867-1884).
agentExit(p, exitCode, n) ==
    IF exitCode # 0 /\ ~p.resultText
    THEN Catch([p EXCEPT !.unreported = @ + 1])
    ELSE IF p.compacting
    THEN LET oldId == ShortId(p.session.sessionId)
             newId == ShortId(Uuid(p.uuids + 1))
             p1 == [p EXCEPT !.session = [sessionId |-> Uuid(p.uuids + 1),
                                          isFirstMessage |-> TRUE],
                             !.uuids = @ + 1]
         IN  [Log(p1, <<"\n", " ", " ">> \o GREEN \o <<"CHECK">> \o RESET
                      \o <<" ", "C", "o", "m", "p", "a", "c", "t", "e", "d", ":", " ">> \o DIM \o oldId \o <<" ", "ARROW", " ">>
                      \o newId \o RESET)
                EXCEPT !.loopPc = "send", !.sending = "compact"]
    ELSE LET p1 == [p EXCEPT !.session.isFirstMessage = FALSE] IN
         IF p1.resultText
         THEN [Log(p1, <<>>) EXCEPT !.loopPc = "send", !.sending = "reply"]
         ELSE Finish(Log(p1, <<" ", " ">> \o YELLOW \o <<"WARN">> \o RESET \o <<" ">>
                             \o DIM \o <<"E", "m", "p", "t", "y", " ", "r", "e", "s", "p", "o", "n", "s", "e", " ", "f", "r", "o", "m", " ", "C", "l", "a", "u", "d", "e">> \o RESET), n)

\* The awaited sendIMessage has returned (ok) or thrown, and the code runs on
\* to the next await.
Sent == [command |-> <<"C", "o", "m", "m", "a", "n", "d", " ", "r", "e", "s", "p", "o", "n", "s", "e", " ", "s", "e", "n", "t">>, reply |-> <<"R", "e", "s", "p", "o", "n", "s", "e", " ", "s", "e", "n", "t", " ", "v", "i", "a", " ", "i", "M", "e", "s", "s", "a", "g", "e">>,
         compact |-> <<"C", "o", "m", "p", "a", "c", "t", " ", "r", "e", "s", "p", "o", "n", "s", "e", " ", "s", "e", "n", "t">>]

sendReturns(p, ok, n) ==
    IF ~ok /\ p.sending = "command"
    THEN interruptibleSleep([p EXCEPT !.unreported = @ + 1], n)
    ELSE IF ~ok /\ p.sending \notin {"error", "compactError"}
    THEN Catch([p EXCEPT !.unreported = @ + 1])
    ELSE Finish(IF p.sending \in {"error", "compactError"}
                THEN [p EXCEPT !.unreported = IF ok THEN @ ELSE @ + 1]
                ELSE Log(p, <<" ", " ">> \o GREEN \o <<"CHECK", " ">>
                            \o Sent[p.sending] \o RESET),
                n)

\* The timer of sleep k fires: it resolves the promise of sleep k.
timerFires(p, k) ==
    [p EXCEPT !.sleepTimers = @ \ {k},
              !.resolved = @ \/ k = p.sleepNo,
              !.timedOut = @ \/ k = p.sleepNo]

----------------------------------------------------------------------------
(* The main loop driven by its awaits, with the poller, the timers and the  *)
(* keyboard in between.                                                    *)

Hi == <<"h", "i">>

HelpCmd == <<"/", "H", "e", "l", "p">>

ResumeCmd == <<"/", "r", "e", "s", "u", "m", "e", " ", "x">>

LoopTexts == {Hi, HelpCmd, ResumeCmd}

\* A message of the iMessage database with the text t.
Incoming(t) == [text |-> t, source |-> "imessage", sender |-> <<"c">>, time |-> <<"9">>]

\* What db.getNewMessages can return: nothing or one message.
Arrivals == {<<>>} \cup {<<Incoming(t)>> : t \in LoopTexts}

LoopKeys == {"a", "\r"}

\* The number the next sleep can take: not the last one's and not one whose
\* timer is still pending.
FreeSleeps ==
    LET free == (1..MaxSleeps) \ (sleepTimers \cup {sleepNo}) IN
    IF free = {} THEN {} ELSE {SetMin(free)}

\* The step op of the loop leaves the program q.
LoopBecomes(q, op) ==
    /\ ProgramBecomes(q)
    /\ lastOp' = op
    /\ atStart' = NoTerm
    /\ UNCHANGED <<cols, bridgeVars, isTTY, keys, fed, lastKey, mdVars, wrapVars>>

LoopWakes(incoming) ==
    /\ ~exited
    /\ loopPc = "sleep"
    /\ resolved
    /\ arrived + Len(incoming) <= MaxArrivals
    /\ \E n \in FreeSleeps : \E q \in {mainLoop(Program, incoming, n)} :
          LoopBecomes(q, "mainLoop")
    /\ arrived' = arrived + Len(incoming)

TimerFires(k) ==
    /\ ~exited
    /\ k \in sleepTimers
    /\ \E q \in {timerFires(Program, k)} : LoopBecomes(q, "timer")
    /\ UNCHANGED arrived

AgentLine(kind, t) ==
    /\ ~exited
    /\ loopPc = "agent"
    /\ lines < MaxLines
    /\ \E q \in {agentLine(Program, kind, t)} : LoopBecomes(q, "agentLine")
    /\ UNCHANGED arrived

AgentExits(exitCode) ==
    /\ ~exited
    /\ loopPc = "agent"
    /\ \E n \in FreeSleeps : \E q \in {agentExit(Program, exitCode, n)} :
          LoopBecomes(q, "agentExit")
    /\ UNCHANGED arrived

SendReturns(ok) ==
    /\ ~exited
    /\ loopPc = "send"
    /\ \E n \in FreeSleeps : \E q \in {sendReturns(Program, ok, n)} :
          LoopBecomes(q, "sendReturns")
    /\ UNCHANGED arrived

PollerFires(incoming) ==
    /\ ~exited
    /\ imessagePollerTimer
    /\ incoming # <<>>
    /\ arrived + Len(incoming) <= MaxArrivals
    /\ \E q \in {pollerCallback(Program, incoming)} : LoopBecomes(q, "poller")
    /\ arrived' = arrived + Len(incoming)

LoopTick ==
    /\ ~exited
    /\ intervals > 0
    /\ spinnerFrame < MaxTicks
    /\ \E q \in {[Program EXCEPT !.d = SpinnerTick(@)]} : LoopBecomes(q, "tick")
    /\ UNCHANGED arrived

LoopKeystroke(ch) ==
    /\ keys < MaxLoopKeys
    /\ Keystroke(ch, TRUE)

\* The loop fed by the iMessage database alone.
LoopNext ==
    \/ \E incoming \in Arrivals : LoopWakes(incoming)
    \/ \E k \in 1..MaxSleeps : TimerFires(k)
    \/ \E kind \in {"event", "result", "malformed"} : AgentLine(kind, <<"s">>)
    \/ \E exitCode \in {0, 1} : AgentExits(exitCode)
    \/ \E ok \in BOOLEAN : SendReturns(ok)
    \/ \E incoming \in Arrivals : PollerFires(incoming)
    \/ LoopTick

\* The loop fed by the keyboard alone: the database has no new message.
WakeNext ==
    \/ LoopWakes(<<>>)
    \/ \E k \in 1..MaxSleeps : TimerFires(k)
    \/ \E kind \in {"event", "result", "malformed"} : AgentLine(kind, <<"s">>)
    \/ \E exitCode \in {0, 1} : AgentExits(exitCode)
    \/ \E ok \in BOOLEAN : SendReturns(ok)
    \/ LoopTick
    \/ \E ch \in LoopKeys : LoopKeystroke(ch)

SpecLoop == EdInit /\ [][LoopNext]_vars

\* What enables the next iteration of the loop, the exit of the agent and
\* the return of an awaited sendIMessage.
LoopReady == ~exited /\ loopPc = "sleep" /\ resolved /\ FreeSleeps # {}

AgentReady == ~exited /\ loopPc = "agent" /\ FreeSleeps # {}

SendReady == ~exited /\ loopPc = "send" /\ FreeSleeps # {}

\* The loop under fair scheduling: a pending timer fires, a resolved sleep is
\* followed by the next iteration, the agent process ends and an awaited
\* sendIMessage returns or throws. The last three are weak fairness written
\* out, with LoopReady, AgentReady and SendReady for ENABLED.
LoopFairness ==
    /\ WF_vars(\E k \in 1..MaxSleeps : TimerFires(k))
    /\ ([]<>~LoopReady \/ []<><<\E incoming \in Arrivals : LoopWakes(incoming)>>_vars)
    /\ ([]<>~AgentReady \/ []<><<\E exitCode \in {0, 1} : AgentExits(exitCode)>>_vars)
    /\ ([]<>~SendReady \/ []<><<\E ok \in BOOLEAN : SendReturns(ok)>>_vars)

SpecLoopFair == SpecLoop /\ LoopFairness

SpecWake == EdInit /\ [][WakeNext]_vars

----------------------------------------------------------------------------
(* Claims about the editor, checked under SpecEd.                          *)

\* The cells of the continuation prompt with nothing typed after it.
ContinuationCells == <<" ", " ", ".", ".", " ">>

\* C11: the keystrokes a, backslash, Enter, b, Enter from an empty buffer queue
\* exactly one line, "a\nb"; after the first Enter nothing is queued, the
\* backslash has become a newline and the prompt shows the ".." prefix.
C11_Continuation ==
    /\ (lastOp = "handleChar" /\ fed = SubSeq(Continuation, 1, 3)) =>
          /\ messageQueue = <<>>
          /\ inputBuffer = <<"a", "\n">>
          /\ term.rows[term.r] = ContinuationCells
          /\ dynamicLineCount = 1
    /\ (lastOp = "handleChar" /\ fed = Continuation) =>
          /\ messageQueue = <<[text |-> <<"a", "\n", "b">>, source |-> "local"]>>
          /\ inputBuffer = <<>>

\* The five keystrokes have been fed and a line is queued.
C11_Witness ==
    /\ lastOp = "handleChar"
    /\ fed = Continuation
    /\ Len(messageQueue) = 1

\* C12: a Ctrl+C keystroke calls shutdown in every editor state, and a Ctrl+D
\* keystroke calls shutdown when the buffer is empty.
C12_InterruptShutsDown ==
    lastOp = "handleChar" =>
        /\ lastKey = "ETX" => triggered
        /\ (lastKey = "EOT" /\ inputBuffer = <<>>) => triggered

----------------------------------------------------------------------------
(* Claims about shutdown, checked under SpecDown.                          *)

\* What shutdown assigns or writes.
shutdownVars ==
    <<running, spinnerTimer, intervals, imessagePollerTimer, dynamicLineCount,
      promptVisible, rawMode, term, exited>>

\* C13: however often shutdown is called, by keystroke or by signal, its body
\* runs once, and a call after the first changes nothing.
C13_ShutdownOnce ==
    /\ [](shutdownRuns <= 1)
    /\ [][(shutdownCalls' > shutdownCalls /\ shutdownCalls >= 1)
             => UNCHANGED shutdownVars]_vars

\* shutdown has been called a second time.
C13_Witness ==
    /\ shutdownCalls = 2
    /\ shutdownRuns = 1
    /\ lastOp = "shutdown"

\* C14: when shutdown has run, from whatever state, no spinner interval and no
\* poller interval is live, dynamicLineCount = 0, promptVisible is false and
\* stdin is out of raw mode.
C14_ShutdownCleans ==
    (triggered /\ shutdownCalls = 1) =>
        /\ intervals = 0
        /\ ~spinnerTimer
        /\ ~imessagePollerTimer
        /\ dynamicLineCount = 0
        /\ ~promptVisible
        /\ ~rawMode

----------------------------------------------------------------------------
(* A claim about the spinner, checked under Spec.                          *)

\* C18: when clearSpinner has returned, after whatever calls, no interval is
\* left to fire a tick, the timer is not set and dynamicLineCount = 1.
C18_TickCancelled ==
    lastOp = "clearSpinner" =>
        /\ intervals = 0
        /\ ~spinnerTimer
        /\ dynamicLineCount = 1

----------------------------------------------------------------------------
(* Claims about the wake mechanism, checked under SpecWake.                *)

\* C19: a non-empty line completed while the main loop is suspended in
\* interruptibleSleep resolves that sleep at once, so the loop can start its
\* next iteration; and a sleep is resolved only by a line completed during
\* it or by its own timer, never by the resolver or the timer of an earlier
\* sleep.
C19_LineWakesSleep ==
    /\ (lastOp = "handleChar" /\ queued /\ loopPc = "sleep") => resolved
    /\ (loopPc = "sleep" /\ resolved) => (lineSinceSleep \/ timedOut)
    /\ (loopPc = "sleep" /\ ~resolved) => (wakeResolve = sleepNo /\ sleepNo \in sleepTimers)

\* A line is completed during a later sleep, whose timer has not fired, after
\* an earlier sleep has ended.
C19_Witness ==
    /\ lastOp = "handleChar" /\ queued /\ loopPc = "sleep"
    /\ sleepNo # 1 /\ ~timedOut /\ resolved

\* The timer of an earlier sleep has fired during a later sleep.
C19_StaleTimer ==
    /\ lastOp = "timer" /\ loopPc = "sleep" /\ ~resolved /\ sleepNo # 1

----------------------------------------------------------------------------
(* Claims about processMessages and the main loop, checked under SpecLoop. *)

\* C17: when processMessages has returned and the loop is back in its sleep,
\* the startSpinner issued before the agent invocation has been matched by a
\* clearSpinner whatever the invocation did: no spinner timer is running.
C17_SpinnerBracketed ==
    loopPc = "sleep" => (~spinnerTimer /\ intervals = 0)

\* The rows of the screen that show a dynamic line: a spinner line or the
\* prompt line.
DynamicRowsOnScreen ==
    {k \in 1..Len(term.rows) :
        \/ term.rows[k] = PromptCells
        \/ /\ Len(term.rows[k]) >= 3
           /\ SubSeq(term.rows[k], 1, 2) = <<" ", " ">>
           /\ \E f \in 1..Len(SPINNER_FRAMES) : term.rows[k][3] = SPINNER_FRAMES[f]}

\* C15: when processMessages is over and the loop is back in its sleep, every
\* failure of a sendIMessage or of the agent invocation has been followed by
\* an error line written through writePermanent, and dynamicLineCount is the
\* number of dynamic lines on the screen.
C15_FailuresReported ==
    loopPc = "sleep" =>
        /\ unreported = 0
        /\ dynamicLineCount = Cardinality(DynamicRowsOnScreen)

\* The bookkeeping half of C15 alone.
BookkeepingKept ==
    loopPc = "sleep" => dynamicLineCount = Cardinality(DynamicRowsOnScreen)

\* The session id /resume takes from ResumeCmd.
ResumedId == SubSeq(ResumeCmd, 9, Len(ResumeCmd))

\* C20: of the agent invocations so far, the one that is the first on its
\* session id was started with --session-id and every later one on that id
\* with -r, whether the earlier ones succeeded or failed; an invocation on a
\* resumed id was started with -r.
C20_SessionFlags ==
    \A i \in 1..Len(invocations) :
        invocations[i].first =
            /\ invocations[i].sessionId # ResumedId
            /\ \A j \in 1..(i - 1) :
                  invocations[j].sessionId # invocations[i].sessionId

\* C20 for the invocations that follow a successful one or a /resume.
SessionFlagsAfterSuccess ==
    \A i \in 1..Len(invocations) :
        (invocations[i].sessionId = ResumedId
            \/ (i > 1 /\ ~invocations[i - 1].first
                      /\ invocations[i - 1].sessionId = invocations[i].sessionId))
        => ~invocations[i].first

----------------------------------------------------------------------------
(* Claims about progress of the main loop, checked under SpecLoopFair.     *)

\* C16: under fair scheduling and without shutdown, a message on the unified
\* queue is eventually taken off it by the loop and handed to
\* processMessages, and a processing flag that is set is eventually cleared,
\* also when a collaborator call inside processMessages has failed.
C16_QueueServed ==
    /\ (messageQueue # <<>>) ~> (messageQueue = <<>>)
    /\ processing ~> ~processing

----------------------------------------------------------------------------
(* sendIMessage and splitMessage of src/src/imessage/sender.ts. Indices    *)
(* are those of the source, counted from 0.                                *)

MAX_IMESSAGE_LENGTH == 15000

\* s.lastIndexOf(pat, position): the last index at or before position where
\* pat occurs in s, or -1.
lastIndexOf(s, pat, position) ==
    LET last == Min(position, Len(s) - Len(pat))
        found == {i \in 0..last : SubSeq(s, i + 1, i + Len(pat)) = pat}
    IN  IF found = {} THEN -1 ELSE CHOOSE i \in found : \A j \in found : j <= i

\* s.trimStart()
trimStart(s) ==
    LET solid == {i \in 1..Len(s) : s[i] \notin WhiteSpace} IN
    IF solid = {} THEN <<>> ELSE SubSeq(s, SetMin(solid), Len(s))

\* The index at which the loop of splitMessage cuts remaining (lines 168-171).
splitIdx(remaining, maxLength) ==
    LET paragraph == lastIndexOf(remaining, <<"\n", "\n">>, maxLength)
        line == lastIndexOf(remaining, <<"\n">>, maxLength)
        word == lastIndexOf(remaining, <<" ">>, maxLength)
    IN  IF paragraph > 0 THEN paragraph
        ELSE IF line > 0 THEN line
        ELSE IF word > 0 THEN word
        ELSE maxLength

\* The while loop of splitMessage (lines 160-175): the chunks pushed, and in
\* trail the length of remaining at the head of every iteration.
RECURSIVE SplitLoop(_, _, _, _)
SplitLoop(remaining, maxLength, pushed, trail) ==
    IF Len(remaining) = 0 THEN [chunks |-> pushed, trail |-> trail]
    ELSE IF Len(remaining) <= maxLength
    THEN [chunks |-> Append(pushed, remaining),
          trail |-> Append(trail, Len(remaining))]
    ELSE LET cut == splitIdx(remaining, maxLength) IN
         SplitLoop(trimStart(SubSeq(remaining, cut + 1, Len(remaining))), maxLength,
                   Append(pushed, SubSeq(remaining, 1, cut)),
                   Append(trail, Len(remaining)))

\* "[i/n]" and a newline in front of chunk i of n.
Numbered(pushed) ==
    [i \in 1..Len(pushed) |->
        <<"[">> \o DecString(i) \o <<"/">> \o DecString(Len(pushed)) \o <<"]", "\n">>
        \o pushed[i]]

splitMessage(t, maxLength) ==
    IF Len(t) <= maxLength THEN <<t>>
    ELSE LET pushed == SplitLoop(t, maxLength, <<>>, <<>>).chunks IN
         IF Len(pushed) > 1 THEN Numbered(pushed) ELSE pushed

\* The messages handed to sendIMessage: short ones, and long ones around the
\* limit with and without a place to break.
Separators == {<<" ">>, <<"\n">>, <<"\n", "\n">>}

SendTexts ==
    {<<>>, <<"h", "i">>}
    \cup {Rep("a", MAX_IMESSAGE_LENGTH - 1 + k) : k \in 0..MaxOver}
    \cup {Rep("a", MAX_IMESSAGE_LENGTH - k) \o sep \o Rep("b", m) :
             k \in 0..MaxOver, sep \in Separators, m \in 1..MaxOver}
    \cup {Rep("a", MAX_IMESSAGE_LENGTH) \o <<" ">> \o Rep("b", MAX_IMESSAGE_LENGTH)
             \o <<" ">> \o Rep("c", k) : k \in 1..MaxOver}

\* sendIMessage(contact, m) up to its first await (lines 118-124).
SendIMessageCall(m) ==
    /\ sendPc = "idle"
    /\ message' = m
    /\ chunks' = splitMessage(m, MAX_IMESSAGE_LENGTH)
    /\ splitTrail' = SplitLoop(m, MAX_IMESSAGE_LENGTH, <<>>, <<>>).trail
    /\ handed' = <<>>
    /\ attempts' = <<>>
    /\ sendPc' = "sending"
    /\ UNCHANGED <<cols, stream, imdb, echo, turn, mdVars, wrapVars, displayVars, editorVars, loopVars>>

\* One turn of the loop of sendIMessage (lines 121-147): the next chunk goes
\* to sendViaJxa and, when that fails, to sendViaAppleScript; when both fail
\* the function throws.
\* A call of a transport for chunk i and whether it returned ok.
Attempt(i, via, ok) == [chunk |-> i, via |-> via, ok |-> ok]

\* The calls of one turn of the loop (lines 125-131).
TurnAttempts(i, jxa, appleScript) ==
    IF jxa THEN <<Attempt(i, "jxa", TRUE)>>
    ELSE <<Attempt(i, "jxa", FALSE), Attempt(i, "appleScript", appleScript)>>

\* A loop that hands the chunk to both transports whatever sendViaJxa returns.
TransportReturnsBoth(jxa, appleScript) ==
    /\ sendPc = "sending"
    /\ handed' = Append(handed, chunks[Len(handed) + 1])
    /\ attempts' = attempts \o <<Attempt(Len(handed) + 1, "jxa", jxa),
                                  Attempt(Len(handed) + 1, "appleScript", appleScript)>>
    /\ sendPc' = IF ~jxa /\ ~appleScript THEN "thrown"
                 ELSE IF Len(handed) + 1 = Len(chunks) THEN "sent"
                 ELSE "sending"
    /\ UNCHANGED <<cols, stream, imdb, echo, turn, message, chunks, splitTrail, mdVars, wrapVars, displayVars,
                   editorVars, loopVars>>

TransportReturns(jxa, appleScript) ==
    /\ sendPc = "sending"
    /\ handed' = Append(handed, chunks[Len(handed) + 1])
    /\ attempts' = attempts \o TurnAttempts(Len(handed) + 1, jxa, appleScript)
    /\ sendPc' = IF ~jxa /\ ~appleScript THEN "thrown"
                 ELSE IF Len(handed) + 1 = Len(chunks) THEN "sent"
                 ELSE "sending"
    /\ UNCHANGED <<cols, stream, imdb, echo, turn, message, chunks, splitTrail, mdVars, wrapVars, displayVars,
                   editorVars, loopVars>>

SendInit == Init /\ inputBuffer = <<>>

SendNext ==
    \/ \E m \in SendTexts : SendIMessageCall(m)
    \/ \E jxa, appleScript \in BOOLEAN : TransportReturns(jxa, appleScript)

SpecSend == SendInit /\ [][SendNext]_vars

----------------------------------------------------------------------------
(* Claims about sendIMessage, checked under SpecSend.                      *)

\* C21: every chunk handed to the transport is at most MAX_IMESSAGE_LENGTH
\* long, a message of at most that length is one chunk equal to the message,
\* and the loop of splitMessage ends: each iteration finds remaining shorter
\* than the one before.
C21_ChunksWithinLimit ==
    /\ \A i \in 1..Len(handed) : Len(handed[i]) <= MAX_IMESSAGE_LENGTH
    /\ (sendPc # "idle" /\ Len(message) <= MAX_IMESSAGE_LENGTH) => chunks = <<message>>
    /\ \A k \in 1..(Len(splitTrail) - 1) : splitTrail[k + 1] < splitTrail[k]

\* The parts of C21 about short messages and about termination, and the
\* limit with room for the "[i/n]" line in front of each chunk.
SplitEndsWithinLimit ==
    /\ (sendPc # "idle" /\ Len(message) <= MAX_IMESSAGE_LENGTH) => chunks = <<message>>
    /\ \A k \in 1..(Len(splitTrail) - 1) : splitTrail[k + 1] < splitTrail[k]
    /\ \A i \in 1..Len(handed) :
          Len(handed[i]) <= MAX_IMESSAGE_LENGTH + 4 + 2 * Len(DecString(Len(chunks)))

----------------------------------------------------------------------------
(* The database cursor.  Messages.app inserts rows into the message table  *)
(* while the bridge calls getNewMessages (poller and main loop),           *)
(* advanceCursor and advanceCursorWithDelay (after every send).            *)

\* Number of rows of a burst of incoming messages: enough for one call of
\* getNewMessages to push processedRowIds over PruneAbove.
BurstLen == PruneAbove + 1

\* The rows Messages.app inserts in one step.
Inserted ==
    {<<Row(FALSE, "contact", TRUE, 1)>>, <<Row(FALSE, "contact", TRUE, 2)>>,
     <<Row(FALSE, "contact", FALSE, 1)>>, <<Row(TRUE, "me", TRUE, 1)>>,
     <<Row(FALSE, "stranger", TRUE, 1)>>,
     Rep(Row(FALSE, "contact", TRUE, 1), BurstLen)}

\* The message table when the bridge starts.
Tables == {<<>>, <<Row(FALSE, "contact", TRUE, 1), Row(TRUE, "me", TRUE, 1)>>}

DbInit ==
    /\ Init
    /\ inputBuffer = <<>>

DbStart(rows) ==
    /\ imdb' = initialize(DbNew(rows))
    /\ imdb = initialize(DbNew(<<>>))
    /\ rows # <<>>
    /\ UNCHANGED <<cols, stream, sendVars, echo, turn, mdVars, wrapVars, displayVars, editorVars, loopVars>>

\* Messages.app inserts rows; their ROWIDs follow the largest one.
DbInsert(new) ==
    /\ imdb.inserts < MaxInserts
    /\ Len(new) > 1 => Len(imdb.rows) < BurstLen
    /\ imdb' = [imdb EXCEPT !.rows = @ \o new, !.inserts = @ + 1]
    /\ UNCHANGED <<cols, stream, sendVars, echo, turn, mdVars, wrapVars, displayVars, editorVars, loopVars>>

DbCall(b) ==
    /\ imdb.calls < MaxDbCalls
    /\ imdb' = [b EXCEPT !.calls = @ + 1]
    /\ UNCHANGED <<cols, stream, sendVars, echo, turn, mdVars, wrapVars, displayVars, editorVars, loopVars>>

GetNewMessagesCall == DbCall(getNewMessages(imdb))

AdvanceCursorCall == DbCall(advanceCursor(imdb))

AdvanceCursorWithDelayCall == imdb.polls = 0 /\ DbCall(advanceCursorWithDelay(imdb))

\* A setTimeout(r, 500) of advanceCursorWithDelay fires.
DelayTimerFires ==
    /\ imdb.polls > 0
    /\ imdb' = delayPoll(imdb)
    /\ UNCHANGED <<cols, stream, sendVars, echo, turn, mdVars, wrapVars, displayVars, editorVars, loopVars>>

DbNext ==
    \/ \E rows \in Tables : DbStart(rows)
    \/ \E new \in Inserted : DbInsert(new)
    \/ GetNewMessagesCall
    \/ AdvanceCursorCall
    \/ AdvanceCursorWithDelayCall
    \/ DelayTimerFires

SpecDb == DbInit /\ [][DbNext]_vars

NoRepeats(s) == Cardinality({s[k] : k \in 1..Len(s)}) = Len(s)

\* C22: across any sequence of getNewMessages, advanceCursor and
\* advanceCursorWithDelay calls no ROWID is returned by getNewMessages more
\* than once, also after processedRowIds has been pruned, and lastRowId
\* never decreases.
C22_NoRowTwice ==
    [][/\ NoRepeats(imdb'.returned)
       /\ imdb'.lastRowId >= imdb.lastRowId]_vars

\* getNewMessages has returned messages after processedRowIds was pruned:
\* the set is back under its limit and the cursor has kept the rows out.
C22_Witness ==
    /\ imdb.afterPrune
    /\ imdb.batch # <<>>
    /\ imdb.gets >= 2
    /\ Cardinality(imdb.processedRowIds) <= PruneAbove

----------------------------------------------------------------------------
(* Echo detection in the loop.  The bridge tracks what it sends, the clock *)
(* advances, and the main loop and the poller filter what getNewMessages   *)
(* returns before they queue it.                                           *)

\* text.slice(0, 150).toLowerCase().trim()
Fingerprint(t) == StringTrim(ToLowerCase(SubSeq(t, 1, Min(FingerprintLen, Len(t)))))

\* recentlySent.set(key, ts): the map as a sequence of entries in insertion
\* order; setting an existing key keeps its place.
MapSet(map, key, ts) ==
    IF \E k \in 1..Len(map) : map[k].key = key
    THEN [k \in 1..Len(map) |-> IF map[k].key = key THEN [key |-> key, ts |-> ts]
                                ELSE map[k]]
    ELSE Append(map, [key |-> key, ts |-> ts])

\* trackSent(text)
trackSent(e, t) ==
    [e EXCEPT !.recentlySent = MapSet(@, Fingerprint(t), e.now),
              !.tracked = @ \cup {[key |-> Fingerprint(t), ts |-> e.now]}]

\* The first loop of isEcho without the delete.
ExpireNothing(map, now) == map

\* The first loop of isEcho: entries older than the window are deleted.
Expire(map, now) == SelectSeq(map, LAMBDA r : ~(now - r.ts > EchoWindow))

\* The value isEcho(text) returns on the map left by its first loop.
EchoMatch(map, t) ==
    \E k \in 1..Len(map) :
        \/ StartsWith(Fingerprint(t), map[k].key)
        \/ StartsWith(map[k].key, Fingerprint(t))

\* messages.filter((msg) => !isEcho(msg.text)): passed[k] tells whether
\* message k stays; every call of isEcho runs the first loop.
echoFilter(e, texts) ==
    [e EXCEPT !.recentlySent = IF texts = <<>> THEN @ ELSE Expire(@, e.now),
              !.texts = texts,
              !.passed = [k \in 1..Len(texts) |-> ~EchoMatch(Expire(e.recentlySent, e.now), texts[k])],
              !.at = e.now,
              !.known = e.tracked]

\* The messages the filter lets through.
Passed(e, msgs) == SelectSeq(msgs, LAMBDA m : ~EchoMatch(Expire(e.recentlySent, e.now), m.text))

\* What the bridge sends: a reply with leading white space and a reply
\* longer than the fingerprint.
SentTexts == {<<" ">> \o Hi, Rep("a", FingerprintLen) \o <<"b">>}

\* What the contact sends (getNewMessages trims it).
EchoTexts ==
    {<<"H", "i">>, <<"h">>, <<"h", "o">>, Rep("a", FingerprintLen) \o <<"c">>}

\* Milliseconds between two events.
ClockSteps == {2, EchoWindow - 1}

EchoTrackSent(t) ==
    /\ Cardinality(echo.tracked) < MaxTracked
    /\ echo' = trackSent(echo, t)
    /\ UNCHANGED <<cols, stream, sendVars, imdb, turn, mdVars, wrapVars, displayVars, editorVars, loopVars>>

EchoClock(ms) ==
    /\ echo.steps < MaxClockSteps
    /\ echo' = [echo EXCEPT !.now = @ + ms, !.steps = @ + 1]
    /\ UNCHANGED <<cols, stream, sendVars, imdb, turn, mdVars, wrapVars, displayVars, editorVars, loopVars>>

\* The step op of the loop leaves the program q and the echo state e.
EchoBecomes(q, e, op) ==
    /\ ProgramBecomes(q)
    /\ lastOp' = op
    /\ atStart' = NoTerm
    /\ echo' = e
    /\ UNCHANGED <<cols, stream, sendVars, imdb, turn, isTTY, keys, fed, lastKey, mdVars, wrapVars>>

\* An iteration of the main loop (lines 1906-1953) with the echo filter of
\* line 1913.
EchoLoopWakes(texts) ==
    /\ ~exited
    /\ loopPc = "sleep"
    /\ resolved
    /\ arrived + Len(texts) <= MaxArrivals
    /\ processing => texts = <<>>
    /\ \E n \in FreeSleeps :
       \E q \in {mainLoop(Program,
                          Passed(echo, [k \in 1..Len(texts) |-> Incoming(texts[k])]),
                          n)} :
          EchoBecomes(q, IF processing THEN echo ELSE echoFilter(echo, texts), "mainLoop")
    /\ arrived' = arrived + Len(texts)

\* The callback of the poller (lines 1366-1385) with the echo filter of
\* line 1369.
EchoPollerFires(texts) ==
    /\ ~exited
    /\ imessagePollerTimer
    /\ texts # <<>>
    /\ arrived + Len(texts) <= MaxArrivals
    /\ \E q \in {pollerCallback(Program,
                                Passed(echo, [k \in 1..Len(texts) |-> Incoming(texts[k])]))} :
          EchoBecomes(q, echoFilter(echo, texts), "poller")
    /\ arrived' = arrived + Len(texts)

EchoNext ==
    \/ \E t \in SentTexts : EchoTrackSent(t)
    \/ \E ms \in ClockSteps : EchoClock(ms)
    \/ \E texts \in {<<>>} \cup {<<t>> : t \in EchoTexts} : EchoLoopWakes(texts)
    \/ \E t \in EchoTexts : EchoPollerFires(<<t>>)
    \/ \E k \in 1..MaxSleeps : TimerFires(k)

SpecEcho == EdInit /\ [][EchoNext]_vars

\* C23: an incoming message whose fingerprint is that of a message tracked
\* as sent less than 300 seconds before is not queued, and a message is
\* skipped only for a fingerprint tracked no more than 300 seconds before.
C23_EchoWindow ==
    \A k \in 1..Len(echo.texts) :
        /\ (\E r \in echo.known :
               /\ r.key = Fingerprint(echo.texts[k])
               /\ echo.at - r.ts < EchoWindow)
           => ~echo.passed[k]
        /\ ~echo.passed[k]
           => \E r \in echo.known :
                 /\ ~(echo.at - r.ts > EchoWindow)
                 /\ \/ StartsWith(Fingerprint(echo.texts[k]), r.key)
                    \/ StartsWith(r.key, Fingerprint(echo.texts[k]))

\* A message was skipped as an echo some time after its fingerprint was
\* tracked, and the queue did not get it.
C23_Witness ==
    /\ echo.texts # <<>>
    /\ ~echo.passed[1]
    /\ echo.at > 0
    /\ \A k \in 1..Len(messageQueue) : messageQueue[k].text # echo.texts[1]

\* A message passed although its fingerprint had been tracked: more than
\* 300 seconds before.
C23_Expired ==
    /\ echo.texts # <<>>
    /\ echo.passed[1]
    /\ \E r \in echo.known : r.key = Fingerprint(echo.texts[1])

----------------------------------------------------------------------------
(* Batches.  getNewMessages can return several messages at once; the main  *)
(* loop hands them to processMessages as one batch.                        *)

\* t occurs in s.
Contains(s, t) == \E i \in 0..(Len(s) - Len(t)) : SubSeq(s, i + 1, i + Len(t)) = t

\* What processMessages (lines 1785-1856) makes of a batch: the command
\* handleSlashCommand dispatched on, if any, and the prompt given to
\* runClaudeStreaming, if any.
Turn(p, batch) ==
    LET combined == Join([k \in 1..Len(batch) |-> batch[k].text], <<"\n", "\n">>) IN
    Once(handleSlashCommand(p, combined), LAMBDA cmdResult :
        Once(cmdResult.handled /\ ~cmdResult.sendToClaude, LAMBDA local :
            [batch |-> [k \in 1..Len(batch) |-> batch[k].text],
             handled |-> cmdResult.handled,
             cmd |-> IF cmdResult.handled
                     THEN ToLowerCase(SplitWords(StringTrim(combined))[1]) ELSE <<>>,
             spawned |-> ~local,
             prompt |-> IF local \/ cmdResult.claudeMessage = <<"C", "O", "M", "P", "A", "C", "T", "_", "C", "O", "N", "T", "E", "X", "T">>
                        THEN <<>>
                        ELSE IF cmdResult.claudeMessage # <<>> THEN cmdResult.claudeMessage
                        ELSE combined]))

\* What getNewMessages can return: up to two messages.
Batches ==
    {<<>>} \cup {<<Incoming(t)>> : t \in {Hi, HelpCmd}}
    \cup {<<Incoming(t), Incoming(u)>> : t, u \in {Hi, HelpCmd}}

\* An iteration of the main loop (lines 1906-1953).
BatchWakes(incoming) ==
    /\ ~exited
    /\ loopPc = "sleep"
    /\ resolved
    /\ arrived + Len(incoming) <= MaxArrivals
    /\ \E n \in FreeSleeps : \E q \in {mainLoop(Program, incoming, n)} :
          /\ ProgramBecomes(q)
          /\ lastOp' = "mainLoop"
          /\ atStart' = NoTerm
    /\ turn' = IF running /\ ~processing /\ messageQueue \o incoming # <<>>
               THEN Turn(Program, messageQueue \o incoming) ELSE turn
    /\ arrived' = arrived + Len(incoming)
    /\ UNCHANGED <<cols, stream, sendVars, imdb, echo, isTTY, keys, fed, lastKey, mdVars, wrapVars>>

BatchNext ==
    \/ \E incoming \in Batches : BatchWakes(incoming)
    \/ \E k \in 1..MaxSleeps : TimerFires(k)
    \/ \E kind \in {"event", "result", "malformed"} : AgentLine(kind, <<"s">>)
    \/ \E exitCode \in {0, 1} : AgentExits(exitCode)
    \/ \E ok \in BOOLEAN : SendReturns(ok)
    \/ LoopTick

SpecBatch == EdInit /\ [][BatchNext]_vars

\* Whether the text of a message is a slash command.
IsCommand(t) == StartsWith(StringTrim(t), <<"/">>)

\* Message k of the last batch was dispatched on as a slash command.
HandledLocally(k) ==
    /\ turn.handled
    /\ turn.cmd = ToLowerCase(SplitWords(StringTrim(turn.batch[k]))[1])

\* Message k of the last batch is part of the prompt given to the agent.
InPrompt(k) == turn.spawned /\ Contains(turn.prompt, turn.batch[k])

\* C24: every message of a batch drained from the queue is either handled
\* locally as a slash command or included in the prompt sent to Claude: a
\* slash command is handled locally wherever it stands in the batch, and a
\* message that is no command is in the prompt also when it is batched with
\* a command.
C24_BatchServed ==
    \A k \in 1..Len(turn.batch) :
        IF IsCommand(turn.batch[k]) THEN HandledLocally(k) ELSE InPrompt(k)

\* The same for the batches of one message, and for the command that
\* stands first in its batch.
SingleServed ==
    /\ Len(turn.batch) = 1 =>
          IF IsCommand(turn.batch[1]) THEN HandledLocally(1) ELSE InPrompt(1)
    /\ (turn.batch # <<>> /\ IsCommand(turn.batch[1])) => HandledLocally(1)

\* A command that follows another message of its batch is handled locally.
LaterCommandServed ==
    \A k \in 2..Len(turn.batch) :
        (IsCommand(turn.batch[k]) /\ ~IsCommand(turn.batch[1])) => HandledLocally(k)

\* A message batched after a command is part of the prompt.
LaterMessageServed ==
    \A k \in 2..Len(turn.batch) :
        (~IsCommand(turn.batch[k]) /\ IsCommand(turn.batch[1])) => InPrompt(k)

----------------------------------------------------------------------------
(* Streaming across the width of the terminal.  The agent's text arrives   *)
(* in chunks of any length, among them chunks that end a line exactly at   *)
(* the last column, and keystrokes redraw the prompt in between.           *)

\* Chunks of the streamed text: short ones, ones that fill a row of the
\* terminal to its last column, and one that ends with a line feed.
WideTexts ==
    {<<"s">>, <<"v", "\n">>, Rep("x", NarrowCols - 1)}

\* main() up to the initial redrawPrompt() in a terminal of NarrowCols
\* columns.
StreamInit ==
    /\ cols = NarrowCols
    /\ \E typed \in InputBuffers :
          DisplayIs(redrawPrompt(Write([DisplayNew EXCEPT !.inputBuffer = typed],
                                       Banner)))
    /\ output = TermWrite(TermEmpty, Banner)
    /\ lastOp = "redrawPrompt"
    /\ atStart = NoTerm
    /\ MdIdle
    /\ WrapIdle
    /\ EditorIdle
    /\ LoopIdle
    /\ BridgeIdle

\* The step op leaves the display d and the streamed text out.
StreamBecomes(d, op, out) ==
    /\ Len(d.term.rows) <= MaxStreamRows
    /\ Len(out.rows) <= MaxStreamRows
    /\ inputBuffer' = d.inputBuffer
    /\ term' = d.term
    /\ dynamicLineCount' = d.dynamicLineCount
    /\ spinnerTimer' = d.spinnerTimer
    /\ intervals' = d.intervals
    /\ streamingCol' = d.streamingCol
    /\ streamingActive' = d.streamingActive
    /\ spinnerFrame' = d.spinnerFrame
    /\ promptVisible' = d.promptVisible
    /\ output' = out
    /\ lastOp' = op
    /\ atStart' = NoTerm
    /\ triggered' = FALSE
    /\ UNCHANGED <<cols, bridgeVars, mdVars, wrapVars, escapeSeq, messageQueue, running,
                   processing, imessagePollerTimer, isTTY, rawMode, readerAlive,
                   exited, wakeResolve, sleepNo, resolved, shutdownCalls,
                   shutdownRuns, keys, fed, lastKey, queued, loopVars>>

WideStreamingCall(t) ==
    /\ ~exited
    /\ StreamBecomes(writeStreaming(Display, t), "writeStreaming", TermWrite(output, t))

\* The redrawPrompt() a keystroke ends with.
KeystrokeRedraw ==
    /\ ~exited
    /\ StreamBecomes(redrawPrompt(Display), "redrawPrompt", output)

StreamNext ==
    \/ \E t \in WideTexts : WideStreamingCall(t)
    \/ KeystrokeRedraw

SpecStream == StreamInit /\ [][StreamNext]_vars

\* The terminal at the point where the next writeStreaming writes its text:
\* the prompt erased and the cursor restored.
Resumed ==
    TermWrite(term, EraseText(dynamicLineCount) \o <<"\r">> \o CURSOR_UP
                    \o (IF streamingCol > 0 THEN CursorRight(streamingCol) ELSE <<>>))

\* C25: after any sequence of writeStreaming calls and keystroke redraws the
\* permanent content of the screen is that of one writeStreaming of the
\* concatenated text, and the next call resumes at the cursor position
\* where the streamed text ended, also when the streamed line exactly fills
\* the width of the terminal.
C25_StreamingConcatenates ==
    streamingActive =>
        /\ Trim(Erased.rows) = Trim(output.rows)
        /\ Resumed.r = output.r
        /\ Resumed.c = output.c

\* The streamed text is on the screen as it was written.
StreamedContentKept ==
    streamingActive => Trim(Erased.rows) = Trim(output.rows)

\* The same while the line being streamed has not reached the last column.
StreamingBelowWidth ==
    (streamingActive /\ \A k \in 1..Len(output.rows) : Len(output.rows[k]) < cols) =>
        /\ Trim(Erased.rows) = Trim(output.rows)
        /\ Resumed.r = output.r
        /\ Resumed.c = output.c

----------------------------------------------------------------------------
(* writePermanent as a frame around the dynamic section, checked under     *)
(* Spec.                                                                   *)

\* The row writePermanent writes its text on lies below the streamed text.
BelowStreamed == Erased.c = 0 /\ Erased.r > Len(Trim(output.rows))

\* C26: writePermanent redraws the dynamic content that was active: the
\* spinner timer, spinnerFrame, inputBuffer and dynamicLineCount have on
\* return the values they had at the call, and while Streaming the text
\* starts at column 0 of a row below the streamed text.
C26_PermanentFrame ==
    [][lastOp' = "writePermanent" =>
          /\ spinnerTimer' = spinnerTimer
          /\ spinnerFrame' = spinnerFrame
          /\ inputBuffer' = inputBuffer
          /\ dynamicLineCount' = dynamicLineCount
          /\ streamingActive => BelowStreamed]_vars

\* The same for calls made while no interval has leaked and the spinner
\* does not run beside a streamed line.
PermanentFrameInOrder ==
    [][(lastOp' = "writePermanent" /\ intervals = (IF spinnerTimer THEN 1 ELSE 0)
        /\ ~(spinnerTimer /\ streamingActive)
        /\ Trim(Erased.rows) = Trim(output.rows)) =>
          /\ spinnerTimer' = spinnerTimer
          /\ spinnerFrame' = spinnerFrame
          /\ inputBuffer' = inputBuffer
          /\ dynamicLineCount' = dynamicLineCount
          /\ streamingActive => BelowStreamed]_vars

----------------------------------------------------------------------------
(* The terminal's bold and italic attributes after the renderer's output.  *)
(* SGR 1 sets bold and 22 clears it, 3 sets italic and 23 clears it, 0     *)
(* clears both; the other codes the renderer emits touch neither.          *)

\* The style code that starts at position k of out.
CodeAt(out, k) == SubSeq(out, k, IndexOf(out, "m", k))

\* The position of the last code of out that is one of codes (0 when none).
LastCode(out, codes) ==
    LET hits == {k \in 1..Len(out) : out[k] = ESC /\ CodeAt(out, k) \in codes} IN
    IF hits = {} THEN 0 ELSE CHOOSE k \in hits : \A m \in hits : m <= k

AttrBold(out) ==
    LET k == LastCode(out, {BOLD, NO_BOLD, RESET}) IN k > 0 /\ CodeAt(out, k) = BOLD

AttrItalic(out) ==
    LET k == LastCode(out, {ITALIC, NO_ITALIC, RESET}) IN
    k > 0 /\ CodeAt(out, k) = ITALIC

\* C27: after every push that leaves the renderer outside inline code and
\* fenced blocks, the terminal attributes that result from the codes emitted so
\* far agree with the flags: bold is on exactly when the bold flag is set and
\* italic exactly when the italic flag is set.
C27_StylesAgree ==
    (mdOp = "push" /\ ~mdRenderer.inCode /\ ~mdRenderer.inCodeBlock) =>
        /\ AttrBold(mdAcc) = mdRenderer.bold
        /\ AttrItalic(mdAcc) = mdRenderer.italic

\* A run of three backquotes somewhere in the text pushed so far.
FenceInText ==
    \E k \in 1..(Len(mdText) - 2) : SubSeq(mdText, k, k + 2) = <<"BQ", "BQ", "BQ">>

\* The attributes agree with the flags as long as no fence was pushed: the
\* resets of inline code and headers are followed by the styles still set.
StylesAgreeWithoutFence ==
    (mdOp = "push" /\ ~mdRenderer.inCode /\ ~mdRenderer.inCodeBlock /\ ~FenceInText) =>
        /\ AttrBold(mdAcc) = mdRenderer.bold
        /\ AttrItalic(mdAcc) = mdRenderer.italic

\* Inline code closed while bold is set: the reset is followed by the bold code.
RestyledAfterInlineCode ==
    /\ mdOp = "push" /\ mdChunk = <<"BQ">> /\ mdPre.inCode /\ mdPre.bold
    /\ EndsWith(mdOut, RESET \o BOLD)

----------------------------------------------------------------------------
(* flush() against a new renderer.  The first flush is followed by the     *)
(* construction of a second renderer; every later call is made on both.    *)

FlushChunks ==
    { <<"a">>, <<"\n">>, <<"*">>, <<"*", "*">>, <<"BQ">>, Fence3Line, Fence4Line,
      <<"[">> }

\* push(chunk) on the renderer and, once it exists, on the second one.
TwinPushCall(chunk) ==
    /\ mdPushes < MaxFlushPushes
    /\ \E p \in {MdPush(mdRenderer, chunk)} :
          /\ mdRenderer' = p.r
          /\ mdOut' = p.out
          /\ mdAcc' = mdAcc \o p.out
    /\ mdTwin' = IF ~mdTwin.live THEN mdTwin
                 ELSE LET t == MdPush(mdTwin.r, chunk) IN
                      [mdTwin EXCEPT !.r = t.r, !.out = t.out, !.calls = @ + 1]
    /\ mdOp' = "push"
    /\ mdChunk' = chunk
    /\ mdPre' = mdRenderer
    /\ mdText' = mdText \o chunk
    /\ mdPushes' = mdPushes + 1
    /\ UNCHANGED <<cols, bridgeVars, wrapVars, displayVars, editorVars, loopVars>>

\* flush() on the renderer; the first one is followed by new MarkdownRenderer(),
\* the later ones are made on the second renderer too.
TwinFlushCall ==
    /\ mdTwin.flushes < MaxFlushes
    /\ \E f \in {MdFlush(mdRenderer)} :
          /\ mdRenderer' = f.r
          /\ mdOut' = f.out
          /\ mdAcc' = mdAcc \o f.out
    /\ mdTwin' = IF ~mdTwin.live
                 THEN [live |-> TRUE, r |-> MdNew, out |-> <<>>, calls |-> 0,
                       flushes |-> 1, before |-> mdRenderer]
                 ELSE LET t == MdFlush(mdTwin.r) IN
                      [mdTwin EXCEPT !.r = t.r, !.out = t.out, !.calls = @ + 1,
                                     !.flushes = @ + 1]
    /\ mdOp' = "flush"
    /\ mdPre' = mdRenderer
    /\ UNCHANGED <<cols, bridgeVars, mdChunk, mdText, mdPushes, wrapVars, displayVars,
                   editorVars, loopVars>>

FlushNext ==
    \/ \E chunk \in FlushChunks : TwinPushCall(chunk)
    \/ TwinFlushCall

SpecFlush == MdInit /\ [][FlushNext]_vars

\* C28: after flush(), whatever was pushed before, every later push and flush
\* returns on the flushed renderer what it returns on a renderer constructed
\* at that moment and given the same calls.
C28_FlushedIsNew ==
    (mdTwin.live /\ mdTwin.calls > 0) => mdOut = mdTwin.out

\* A renderer flushed inside a block that four backquotes opened, on which
\* three backquotes have since opened a block and three have closed it.
C28_Witness ==
    /\ mdTwin.live /\ mdTwin.calls >= 2
    /\ mdTwin.before.inCodeBlock /\ mdTwin.before.codeBlockTicks = 4
    /\ mdOp = "push" /\ mdPre.inCodeBlock /\ mdPre.codeBlockTicks = 3
    /\ ~mdRenderer.inCodeBlock
    /\ mdOut = RESET

\* The flushed renderer and the new one need not be equal field by field: flush
\* leaves codeBlockTicks, which is read only inside a block and set on opening.
StaleTicks ==
    /\ mdTwin.live /\ mdTwin.calls > 0
    /\ mdRenderer.codeBlockTicks # mdTwin.r.codeBlockTicks

\* Except for codeBlockTicks the two renderers agree after every call.
FieldsAgree ==
    (mdTwin.live /\ mdTwin.calls > 0) =>
        [mdRenderer EXCEPT !.codeBlockTicks = 0] = [mdTwin.r EXCEPT !.codeBlockTicks = 0]

----------------------------------------------------------------------------
(* Constructs left unresolved at the end of a push, checked under SpecMd.  *)

StyleFlags(r) == <<r.bold, r.italic, r.inCode, r.inCodeBlock>>

\* The push found nothing pending and kept its whole chunk pending.
WholeChunkPending ==
    /\ mdOp = "push"
    /\ mdPre.pending = <<>>
    /\ mdChunk # <<>>
    /\ mdRenderer.pending = mdChunk

\* C29: a push whose chunk is an unresolved construct from its first character
\* emits nothing and changes no style flag (a run of three backquotes without
\* its newline leaves inCodeBlock false), and the push that brings the newline
\* of a pending opening fence opens the block: it returns the dim code and
\* sets inCodeBlock.
C29_UnresolvedKeepsFlags ==
    /\ WholeChunkPending =>
          /\ mdOut = <<>>
          /\ StyleFlags(mdRenderer) = StyleFlags(mdPre)
    /\ (mdOp = "push" /\ mdPre.pending = <<"BQ", "BQ", "BQ">> /\ mdChunk = <<"\n">>) =>
          /\ mdOut = DIM
          /\ mdRenderer.inCodeBlock

\* The constructs other than the opening fence are kept pending without a
\* change of flags: a lone *, an open bracket, a header without its newline.
OtherConstructsKeepFlags ==
    (WholeChunkPending /\ mdChunk[1] \notin {"BQ", "~"}) =>
        /\ mdOut = <<>>
        /\ StyleFlags(mdRenderer) = StyleFlags(mdPre)

\* A header kept pending until its newline arrives.
HeaderResumed ==
    /\ mdOp = "push" /\ mdPre.pending = <<"#", " ">> /\ mdChunk = <<"\n">>
    /\ mdOut = BOLD \o RESET \o <<"\n">>

----------------------------------------------------------------------------
(* The look-ahead windows of the link branch.  The chunks bring a pending  *)
(* construct to one character below each window and then to the window.    *)

LinkChunks ==
    { <<"[">>, <<"]", "(">>, <<")">>, <<"a">>,
      Rep("a", LinkTextWindow - 2), Rep("a", LinkTargetWindow - 4) }

LinkNext ==
    \/ \E chunk \in LinkChunks : MdPushCall(chunk)
    \/ MdFlushCall

SpecLink == MdInit /\ [][LinkNext]_vars

\* input begins with [, its first ] is followed by ( and no ) comes after that.
OpenTarget(input) ==
    LET cb == IndexOf(input, "]", 2) IN
    /\ cb # 0
    /\ cb + 1 <= Len(input) /\ input[cb + 1] = "("
    /\ IndexOf(input, ")", cb + 2) = 0

\* C30: a pending buffer that begins with [ is shorter than 200 characters when
\* it holds no ], and shorter than 500 when its ] is followed by ( with no )
\* after it; a push whose input is such a construct of 200, respectively 500,
\* characters or more emits the [ as literal text.
C30_LinkWindows ==
    /\ (mdOp = "push" /\ mdRenderer.pending # <<>> /\ mdRenderer.pending[1] = "[") =>
          /\ IndexOf(mdRenderer.pending, "]", 2) = 0 => Len(mdRenderer.pending) < 200
          /\ OpenTarget(mdRenderer.pending) => Len(mdRenderer.pending) < 500
    /\ (mdOp = "push" /\ mdPre.pending # <<>> /\ mdPre.pending[1] = "["
        /\ \/ IndexOf(MdInput, "]", 2) = 0 /\ Len(MdInput) >= 200
           \/ OpenTarget(MdInput) /\ Len(MdInput) >= 500) =>
          /\ mdOut # <<>> /\ mdOut[1] = "["
          /\ Len(mdRenderer.pending) < Len(MdInput)

\* An unterminated link target of 499 characters is pending and the next
\* character makes the construct literal.
C30_Witness ==
    /\ mdOp = "push"
    /\ OpenTarget(mdPre.pending) /\ Len(mdPre.pending) = 499
    /\ mdChunk = <<"a">>
    /\ mdRenderer.pending = <<>>
    /\ mdOut = MdInput

\* A bracket with 198 characters after it is pending: 199 is below the window.
TextWindowEdge ==
    /\ mdOp = "push"
    /\ Len(mdRenderer.pending) = 199 /\ mdRenderer.pending[1] = "["
    /\ IndexOf(mdRenderer.pending, "]", 2) = 0

\* The bracket of 200 characters is given up.
TextWindowReached ==
    /\ mdOp = "push"
    /\ Len(mdPre.pending) = 199 /\ mdPre.pending[1] = "["
    /\ mdChunk = <<"a">>
    /\ mdRenderer.pending = <<>> /\ mdOut = MdInput

----------------------------------------------------------------------------
(* The text handlers of one agent run, cli.ts lines 780-914.  The caller   *)
(* names the block a delta or a content entry belongs to; the handlers do  *)
(* not see it.                                                             *)

AssistantLabel ==
    <<" ", " ">> \o RED \o <<"LEFT">> \o RESET \o <<" ">> \o DIM
        \o <<"[", "a", "s", "s", "i", "s", "t", "a", "n", "t", "]">> \o RESET \o <<" ">>

Call(fn, block, t) == [fn |-> fn, block |-> block, text |-> t]

\* handleStreamEvent, content_block_delta with a text_delta (lines 808-822).
textDelta(s, b, t) ==
    LET s1 == IF ~s.textStarted
              THEN [s EXCEPT !.textStarted = TRUE,
                             !.assistantCol = Len(ASSISTANT_INDENT),
                             !.calls = Append(@, Call("writeOutput", 0, AssistantLabel))]
              ELSE s
        p == MdPush(s1.mdRenderer, t)
        w == Wrap(p.out, s1.assistantCol)
    IN  [s1 EXCEPT !.currentTextChunks = Append(@, t),
                   !.mdRenderer = p.r,
                   !.assistantCol = w.endCol,
                   !.calls = Append(@, Call("writeOutput", b, w.wrapped))]

\* handleStreamEvent, content_block_stop (lines 823-832; no thinking block).
blockStop(s, b) ==
    IF ~s.textStarted THEN s
    ELSE LET f == MdFlush(s.mdRenderer)
             w == Wrap(f.out, s.assistantCol)
         IN  IF f.out = <<>> THEN [s EXCEPT !.mdRenderer = f.r]
             ELSE [s EXCEPT !.mdRenderer = f.r, !.assistantCol = w.endCol,
                            !.calls = Append(@, Call("writeOutput", b, w.wrapped))]

\* handleAssistantMessage, one text block with a non-empty text (lines 898-913).
textBlock(s, b, t) ==
    LET shown ==
            IF s.currentTextChunks = <<>>
            THEN LET p == MdPush(s.mdRenderer, t)
                     f == MdFlush(p.r)
                     w == Wrap(p.out \o f.out, Len(ASSISTANT_INDENT))
                 IN  Call("console.log", b, AssistantLabel \o w.wrapped)
            ELSE Call("console.log", 0, <<>>)
    IN  [s EXCEPT !.calls = Append(@, shown),
                  !.currentTextChunks = <<>>,
                  !.textStarted = FALSE,
                  !.mdRenderer = MdNew]

\* handleAssistantMessage on a content that holds the text blocks from..to.
RECURSIVE assistantMessage(_, _, _)
assistantMessage(s, from, to) ==
    IF from > to THEN s
    ELSE assistantMessage(textBlock(s, from, <<"t">>), from + 1, to)

----------------------------------------------------------------------------
(* The events of one turn.  Text blocks are numbered in the order of the   *)
(* response.  A block is streamed (deltas, then its stop) or not; an       *)
(* assistant message carries the next blocks of the response, each either  *)
(* streamed to its stop or not streamed at all; the message of a block     *)
(* that is not streamed arrives before the deltas of a later block.        *)

\* The last block that has been streamed or delivered.
LastBlock ==
    LET seen == stream.stopped \cup {stream.delivered, stream.open} IN
    CHOOSE b \in seen : \A c \in seen : c <= b

StreamBecomesTo(s) ==
    /\ stream' = s
    /\ UNCHANGED <<cols, sendVars, imdb, echo, turn, mdVars, wrapVars, displayVars,
                   editorVars, loopVars>>

TextDeltaEvent(b) ==
    /\ \/ stream.open = b
       \/ /\ stream.open = 0 /\ b > LastBlock
          /\ \A c \in 1..(b - 1) : c <= stream.delivered \/ c \in stream.stopped
    /\ stream.deltas[b] < MaxDeltas
    /\ StreamBecomesTo([textDelta(stream, b, <<"s">>)
                          EXCEPT !.deltas[b] = @ + 1, !.open = b,
                                 !.apart = @ /\ stream.delivered = b - 1])

BlockStopEvent ==
    /\ stream.open # 0
    /\ StreamBecomesTo([blockStop(stream, stream.open)
                          EXCEPT !.open = 0, !.stopped = @ \cup {stream.open}])

AssistantMessageEvent(to) ==
    /\ stream.open = 0
    /\ to > stream.delivered
    /\ StreamBecomesTo([assistantMessage(stream, stream.delivered + 1, to)
                          EXCEPT !.delivered = to,
                                 !.apart = @ /\ to = stream.delivered + 1])

TurnNext ==
    \/ \E b \in 1..MaxBlocks : TextDeltaEvent(b)
    \/ BlockStopEvent
    \/ \E to \in 1..MaxBlocks : AssistantMessageEvent(to)

SpecTurn == Init /\ [][TurnNext]_vars

\* The calls that carry text of block b through fn.
CallsOf(fn, b) ==
    {k \in 1..Len(stream.calls) : stream.calls[k].fn = fn /\ stream.calls[k].block = b}

ShownOnce(b) ==
    IF stream.deltas[b] > 0
    THEN CallsOf("writeOutput", b) # {} /\ CallsOf("console.log", b) = {}
    ELSE CallsOf("writeOutput", b) = {} /\ Cardinality(CallsOf("console.log", b)) = 1

\* C31: the text of every block whose assistant message has arrived has been
\* displayed exactly once: by writeOutput calls and no console.log if a delta
\* of the block was received, by one console.log otherwise.
C31_BlocksShownOnce ==
    \A b \in 1..stream.delivered : ShownOnce(b)

\* When every assistant message carries one block and arrives before the
\* deltas of the next block, every block is displayed exactly once.
BlocksApartShownOnce ==
    stream.apart => \A b \in 1..stream.delivered : ShownOnce(b)

\* A streamed block and a block that was not streamed, each delivered by its
\* own message in time.
ApartBoth ==
    /\ stream.apart /\ stream.delivered >= 2
    /\ \E b, c \in 1..stream.delivered : stream.deltas[b] > 0 /\ stream.deltas[c] = 0

----------------------------------------------------------------------------
(* Incoming messages against the cursor, checked under SpecDb.             *)

\* A row the bridge is meant to read: from the contact, with text, in a chat.
FromContact(row) == ~row.fromMe /\ row.sender = "contact" /\ row.text /\ row.chats >= 1

ReturnedIds(b) == {b.returned[k] : k \in 1..Len(b.returned)}

\* C32: when getNewMessages returns, every incoming row of the contact with a
\* non-empty text that was inserted after initialize() has been returned by
\* this or an earlier getNewMessages call, whatever advanceCursor and
\* advanceCursorWithDelay calls came in between.
C32_NoIncomingSkipped ==
    [][imdb'.gets = imdb.gets + 1 =>
          \A id \in (imdb'.initial + 1)..Len(imdb'.rows) :
              FromContact(imdb'.rows[id]) => id \in ReturnedIds(imdb')]_vars

\* getNewMessages returns every incoming row above the cursor it finds.
AboveCursorReturned ==
    [][imdb'.gets = imdb.gets + 1 =>
          \A id \in (imdb.lastRowId + 1)..Len(imdb.rows) :
              FromContact(imdb.rows[id]) => id \in ReturnedIds(imdb')]_vars

----------------------------------------------------------------------------
(* The line terminator, checked under SpecEd.                              *)

\* The keystroke of this step is a line terminator and the buffer it finds
\* does not end with a backslash.
EnterPressed ==
    /\ keys' = keys + 1
    /\ lastKey' = "\r"
    /\ ~EndsWith(inputBuffer, <<"\\">>)

\* The cells of the prompt with nothing typed after it.
EmptyPromptCells == <<" ", " ", ">", " ">>

\* The buffer is cleared and the prompt line is drawn with an empty input.
ClearedAndRedrawn ==
    /\ inputBuffer' = <<>>
    /\ term'.rows[term'.r] = EmptyPromptCells
    /\ dynamicLineCount' = 1

\* C33: a line terminator that finds a buffer not ending with a backslash
\* clears the buffer, appends its trimmed content to the queue as one line and
\* redraws the prompt with an empty input; no other keystroke changes the queue.
C33_EnterQueuesLine ==
    [][keys' = keys + 1 =>
          IF EnterPressed
          THEN /\ ClearedAndRedrawn
               /\ messageQueue' = Append(messageQueue,
                                         [text |-> StringTrim(inputBuffer),
                                          source |-> "local"])
          ELSE messageQueue' = messageQueue]_vars

\* Outside an escape sequence the line terminator clears the buffer and
\* redraws the prompt; it queues the trimmed content when that is not empty,
\* and nothing otherwise.  No other keystroke changes the queue.
EnterOutsideEscape ==
    [][keys' = keys + 1 =>
          IF EnterPressed /\ escapeSeq = 0
          THEN /\ ClearedAndRedrawn
               /\ messageQueue' =
                     IF StringTrim(inputBuffer) = <<>> THEN messageQueue
                     ELSE Append(messageQueue, [text |-> StringTrim(inputBuffer),
                                                source |-> "local"])
          ELSE messageQueue' = messageQueue]_vars

\* A line with an embedded newline has been queued behind another line.
TwoLinesQueued ==
    /\ Len(messageQueue) = 2
    /\ lastKey = "\r"
    /\ inputBuffer = <<>>


-----------------------------------------------------------------------------
(* The width of the prompt line, cli.ts lines 1427-1462.  getVisibleInput   *)
(* measures the input in UTF-16 units (String.length) and the terminal      *)
(* measures it in columns.                                                  *)

PromptKeys == {"a", Wide, "\\", "\r", "DEL"}

\* main() in a terminal of NarrowCols columns.
PromptInit == EdStartAt(NarrowCols, {"idle"}, {TRUE})

PromptNext ==
    \E ch \in PromptKeys : Keystroke(ch, FALSE)

SpecPrompt == PromptInit /\ [][PromptNext]_vars

\* The current sub-line of the edit buffer: what follows its last line feed.
SubLine == SubSeq(inputBuffer, LastIndexOf(inputBuffer, "\n") + 1, Len(inputBuffer))

\* The last n characters of s (all of s when it is shorter, none when n <= 0).
Suffix(s, n) ==
    IF n <= 0 THEN <<>>
    ELSE IF Len(s) <= n THEN s ELSE SubSeq(s, Len(s) - n + 1, Len(s))

\* The prompt as redrawPrompt() writes it, on a screen of its own.
PromptDrawn == TermWrite(TermEmpty, PromptPrefix(Display) \o getVisibleInput(Display))

PromptShown == promptVisible /\ ~spinnerTimer /\ ~streamingActive

\* C34: for every edit buffer and terminal width, the input shown on the
\* prompt line is the suffix of the current sub-line limited to width minus 5
\* characters, the prompt line with its prefix never exceeds the terminal
\* width, and it occupies exactly the one line counted in dynamicLineCount.
C34_PromptFitsOneLine ==
    PromptShown =>
        /\ getVisibleInput(Display) = Suffix(SubLine, cols - 5)
        /\ Len(Trim(PromptDrawn.rows)) = dynamicLineCount
        /\ dynamicLineCount = 1

\* What holds: a buffer of one-column characters is shown on one line.
NarrowCharsFit ==
    (PromptShown /\ Count(inputBuffer, Wide) = 0) =>
        /\ getVisibleInput(Display) = Suffix(SubLine, cols - 5)
        /\ Len(Trim(PromptDrawn.rows)) = dynamicLineCount
        /\ dynamicLineCount = 1

\* The shown input is always the limited suffix, whatever the characters.
ShownIsSuffix ==
    PromptShown => getVisibleInput(Display) = Suffix(SubLine, cols - 5)

\* A prompt whose input was cut to the limit.
PromptCut ==
    PromptShown /\ Len(SubLine) > cols - 5 /\ Count(inputBuffer, Wide) = 0


----------------------------------------------------------------------------
(* The order of the transport calls of sendIMessage, sender.ts lines       *)
(* 118-149, checked under SpecSend.                                        *)

\* The calls made for chunk i.
AttemptsFor(i) == SelectSeq(attempts, LAMBDA a : a.chunk = i)

\* Chunk i was accepted by one of the two transports.
Accepted(i) == \E k \in 1..Len(attempts) : attempts[k].chunk = i /\ attempts[k].ok

\* C35: sendIMessage sends the chunks strictly in order, the AppleScript
\* transport is tried for a chunk only after the JXA transport failed for that
\* chunk, when both fail the call throws and no later chunk is sent, and the
\* call returns normally only if every chunk was accepted by a transport.
C35_SendsInOrder ==
    /\ \A k \in 1..(Len(attempts) - 1) :
          \/ attempts[k + 1].chunk = attempts[k].chunk
          \/ attempts[k + 1].chunk = attempts[k].chunk + 1 /\ attempts[k].ok
    /\ (attempts # <<>>) => attempts[1].chunk = 1
    /\ \A i \in 1..Len(chunks) :
          /\ AttemptsFor(i) # <<>> => AttemptsFor(i)[1].via = "jxa"
          /\ \A k \in 1..Len(attempts) :
                (attempts[k].chunk = i /\ attempts[k].via = "appleScript")
                    => k > 1 /\ attempts[k - 1] = Attempt(i, "jxa", FALSE)
          /\ Len(AttemptsFor(i)) <= 2
    /\ \A i \in 1..Len(handed) : handed[i] = chunks[i]
    /\ (\E i \in 1..Len(chunks) : AttemptsFor(i) # <<>> /\ ~Accepted(i))
          => /\ sendPc = "thrown"
             /\ \A k \in 1..Len(attempts) : ~Accepted(attempts[k].chunk)
                    => attempts[k].chunk = attempts[Len(attempts)].chunk
    /\ sendPc = "sent" => \A i \in 1..Len(chunks) : Accepted(i)
    /\ sendPc = "thrown" => ~Accepted(attempts[Len(attempts)].chunk)

\* A message of three chunks whose second chunk went through the AppleScript
\* transport and whose third was refused by both.
C35_Witness ==
    /\ sendPc = "thrown"
    /\ Len(chunks) = 3
    /\ Len(attempts) = 5
    /\ attempts[1] = Attempt(1, "jxa", TRUE)
    /\ attempts[2] = Attempt(2, "jxa", FALSE)
    /\ attempts[3] = Attempt(2, "appleScript", TRUE)

\* A message of several chunks sent completely.
SentInChunks == sendPc = "sent" /\ Len(chunks) > 1


----------------------------------------------------------------------------
(* The first-output callback of runClaudeStreaming, cli.ts lines 1104-1111 *)
(* and 1857-1866: a run that prints several lines.                         *)

MaxRunLines == 2

RunLine(kind, t) ==
    /\ ~exited
    /\ loopPc = "agent"
    /\ lines < MaxRunLines
    /\ \E q \in {agentLine(Program, kind, t)} : LoopBecomes(q, "agentLine")
    /\ UNCHANGED arrived

RunNext ==
    \/ \E incoming \in Arrivals : LoopWakes(incoming)
    \/ \E k \in 1..MaxSleeps : TimerFires(k)
    \/ \E kind \in {"event", "result", "malformed"} : RunLine(kind, <<"s">>)
    \/ \E exitCode \in {0, 1} : AgentExits(exitCode)
    \/ \E ok \in BOOLEAN : SendReturns(ok)
    \/ LoopTick

SpecRun == EdInit /\ [][RunNext]_vars

\* A stdout line of the agent was read in this step.
LineRead == loopPc = "agent" /\ lines' = lines + 1

\* The step wrote turn output: streamed text or a permanent line.
TurnOutput == output' # output

\* C36: in one run of the agent the first-output callback is invoked at most
\* once, and before the first event is handled: every step of the run that
\* streams text or prints turn output leaves the callback called exactly once
\* and the spinner timer started for the run cleared.
C36_FirstOutputOnce ==
    [][LineRead =>
          /\ firstOutputs' <= 1
          /\ firstOutputs' >= firstOutputs
          /\ (firstOutputs' = 1) = firstOutputFired'
          /\ TurnOutput => firstOutputs' = 1 /\ ~spinnerTimer']_vars

\* The last line of a run: an event was streamed before it.
C36_Witness ==
    loopPc = "agent" /\ lines = MaxRunLines /\ firstOutputs = 1 /\ streamingActive

\* The spinner of the run is cleared while the interval of an earlier run,
\* which ended without output, is still live.
ClearedBesideLeak ==
    loopPc = "agent" /\ firstOutputs = 1 /\ ~spinnerTimer /\ intervals > 0


----------------------------------------------------------------------------
(* The unified queue, cli.ts lines 1906-1946: keyboard lines (handleChar,  *)
(* lines 1689-1702) and poller ticks (lines 1364-1386) append to it while  *)
(* the main loop drains it into batches.                                   *)

\* What the database returns to the main loop and to the poller.
QueueArrivals == {<<>>, <<Incoming(Hi)>>}

QueueNext ==
    \/ \E incoming \in QueueArrivals : LoopWakes(incoming)
    \/ \E k \in 1..MaxSleeps : TimerFires(k)
    \/ AgentLine("result", <<"s">>)
    \/ AgentExits(0)
    \/ SendReturns(TRUE)
    \/ PollerFires(<<Incoming(Hi)>>)
    \/ \E ch \in LoopKeys : LoopKeystroke(ch)

SpecQueue == EdInit /\ [][QueueNext]_vars

RECURSIVE Flatten(_)
Flatten(seqs) == IF seqs = <<>> THEN <<>> ELSE Head(seqs) \o Flatten(Tail(seqs))

\* Every message appended so far, in the order in which it left or will
\* leave the queue: the processed batches followed by the queue.
Served == Flatten(batches) \o messageQueue

\* The number of messages the step appends to the queue: those read from
\* the database and the line a keystroke completed.
Appended == (arrived' - arrived) + (IF keys' # keys /\ queued' THEN 1 ELSE 0)

\* C37: messages leave the unified queue in the order they were appended and
\* each belongs to exactly one processed batch (the batches followed by the
\* queue grow at the end by what the step appends, and by nothing else), and
\* when processing is set back to false the queue is empty.
C37_QueueInOrder ==
    [][/\ IsPrefix(Served, Served')
       /\ Len(Served') = Len(Served) + Appended
       /\ Len(batches') \in {Len(batches), Len(batches) + 1}
       /\ \A k \in 1..Len(batches) : batches'[k] = batches[k]
       /\ (Len(batches') > Len(batches)) => batches'[Len(batches')] # <<>>
       /\ (processing /\ ~processing') => messageQueue' = <<>>]_vars

\* A batch of two messages, one typed and one polled while the batch before
\* it was processed.
C37_Witness ==
    /\ Len(batches) >= 2
    /\ \E k \in 2..Len(batches) :
          /\ Len(batches[k]) = 2
          /\ {batches[k][1].source, batches[k][2].source} = {"local", "imessage"}

\* processing went back to false after a second batch.
DrainedTwice == ~processing /\ Len(batches) >= 2


----------------------------------------------------------------------------
(* The column of the streamed assistant text: handleStreamEvent keeps it   *)
(* in state.assistantCol (cli.ts lines 808-822) while writeStreaming and   *)
(* writePermanent move the cursor (lines 1467-1568).                       *)

ColTexts == {<<"s">>, <<"s", "\n">>, <<"*">>, <<"s", "s">>}

\* The step op leaves the display d, the stream state s and the streamed and
\* permanent text out.
ColBecomes(d, s, op, out) ==
    /\ Len(d.term.rows) <= MaxStreamRows
    /\ Len(out.rows) <= MaxStreamRows
    /\ inputBuffer' = d.inputBuffer
    /\ term' = d.term
    /\ dynamicLineCount' = d.dynamicLineCount
    /\ spinnerTimer' = d.spinnerTimer
    /\ intervals' = d.intervals
    /\ streamingCol' = d.streamingCol
    /\ streamingActive' = d.streamingActive
    /\ spinnerFrame' = d.spinnerFrame
    /\ promptVisible' = d.promptVisible
    /\ stream' = s
    /\ output' = out
    /\ lastOp' = op
    /\ atStart' = NoTerm
    /\ triggered' = FALSE
    /\ UNCHANGED <<cols, sendVars, imdb, echo, turn, mdVars, wrapVars, escapeSeq,
                   messageQueue, running, processing, imessagePollerTimer, isTTY,
                   rawMode, readerAlive, exited, wakeResolve, sleepNo, resolved,
                   shutdownCalls, shutdownRuns, keys, fed, lastKey, queued, loopVars>>

\* The texts of the writeOutput calls s made after the first n.
NewCalls(s, n) == [k \in 1..(Len(s.calls) - n) |-> s.calls[n + k].text]

RECURSIVE writeAll(_, _)
writeAll(d, texts) ==
    IF texts = <<>> THEN d ELSE writeAll(writeStreaming(d, Head(texts)), Tail(texts))

\* A text_delta event of the open text block (lines 808-822), every
\* writeOutput call of it made on the display.
ColDelta(t) ==
    /\ ~exited
    /\ stream.deltas[1] < MaxDeltas
    /\ \E s \in {textDelta(stream, 1, t)} :
          ColBecomes(writeAll(Display, NewCalls(s, Len(stream.calls))),
                     [s EXCEPT !.deltas[1] = @ + 1, !.open = 1],
                     "textDelta",
                     TermWrite(output, Flatten(NewCalls(s, Len(stream.calls)))))

\* A queued notice or any other console.log during the block.
ColPermanent ==
    /\ ~exited
    /\ ColBecomes(writePermanent(Display, <<"p">>), stream, "writePermanent",
                  TermWrite(output, (IF streamingActive THEN <<"\n">> ELSE <<>>)
                                    \o <<"p", "\n">>))

\* The redrawPrompt() a keystroke ends with.
ColKeystroke ==
    /\ ~exited
    /\ ColBecomes(redrawPrompt(Display), stream, "redrawPrompt", output)

ColNext ==
    \/ \E t \in ColTexts : ColDelta(t)
    \/ ColPermanent
    \/ ColKeystroke

SpecCol == Init /\ [][ColNext]_vars

\* The stream state after one more streamed character, and the display
\* after that character was written.
NextDelta == textDelta(stream, 1, <<"x">>)

Landed == streamingWrite(Display, NextDelta.calls[Len(NextDelta.calls)].text)

\* C38: during a streamed text block, under any interleaving of deltas with
\* keystrokes, queued notices and other permanent output, assistantCol is the
\* column at which the next streamed character is written: after that
\* character the cursor stands at the column assistantCol then holds.
C38_AssistantColTracksCursor ==
    stream.textStarted => Landed.term.c = NextDelta.assistantCol

\* No permanent output was written since the block began.
Undisturbed == \A r \in 1..Len(output.rows) : Count(output.rows[r], "p") = 0

\* What holds: between deltas and keystroke redraws alone the two agree.
UndisturbedColumnsAgree ==
    (stream.textStarted /\ Undisturbed) => Landed.term.c = NextDelta.assistantCol

\* A block in which a delta followed a keystroke redraw.
StreamedPastRedraw ==
    stream.textStarted /\ Undisturbed /\ stream.deltas[1] = MaxDeltas
    /\ lastOp = "textDelta" /\ stream.assistantCol > Len(ASSISTANT_INDENT) + 1


----------------------------------------------------------------------------
(* The echo filter once more, cli.ts lines 1305-1317 and 1912-1917: what   *)
(* makes an incoming message an echo.                                      *)

\* A fingerprint tracked no more than 300 seconds before the filter ran.
Recent(r) == ~(echo.at - r.ts > EchoWindow)

\* C39: an incoming message is discarded as an echo only if its fingerprint
\* equals the fingerprint of a message sent in the last 300 seconds; a
\* message that is only a prefix of a sent message (or of which a sent
\* message is a prefix) is not dropped.
C39_EchoOnlyEqual ==
    \A k \in 1..Len(echo.texts) :
        ~echo.passed[k]
            => \E r \in echo.known : Recent(r) /\ r.key = Fingerprint(echo.texts[k])

\* What holds: a message is dropped only when its fingerprint and a recent
\* one are equal or one begins with the other.
EchoOnlyRelated ==
    \A k \in 1..Len(echo.texts) :
        ~echo.passed[k]
            => \E r \in echo.known :
                  /\ Recent(r)
                  /\ \/ StartsWith(Fingerprint(echo.texts[k]), r.key)
                     \/ StartsWith(r.key, Fingerprint(echo.texts[k]))

\* A message dropped whose fingerprint is a proper prefix of a tracked one.
PrefixDropped ==
    /\ echo.texts # <<>>
    /\ ~echo.passed[1]
    /\ \A r \in echo.known : r.key # Fingerprint(echo.texts[1])


----------------------------------------------------------------------------
(* The range of streamingCol, cli.ts lines 1510-1539, 1474-1486 and        *)
(* 1595-1597, in a terminal narrow enough for streamed rows to reach the   *)
(* last column.  process.stdout.columns is read at every call: the width   *)
(* is whatever the terminal reports at that time.                          *)

\* The widths the terminal is resized to.
ResizedCols == {NarrowCols - 2}

NarrowPermanentCall ==
    /\ ~exited
    /\ StreamBecomes(writePermanent(Display, <<"p">>), "writePermanent",
                     TermWrite(output, (IF streamingActive THEN <<"\n">> ELSE <<>>)
                                       \o <<"p", "\n">>))

NarrowSpinnerCall ==
    /\ ~exited
    /\ intervals < MaxIntervals
    /\ StreamBecomes(startSpinner(Display), "startSpinner", output)

\* The user resizes the terminal window between two calls.
Resize(width) ==
    /\ ~exited
    /\ cols = NarrowCols
    /\ cols' = width
    /\ lastOp' = "resize"
    /\ UNCHANGED <<bridgeVars, mdVars, wrapVars, inputBuffer, spinnerTimer, intervals,
                   dynamicLineCount, streamingCol, streamingActive, spinnerFrame,
                   promptVisible, term, output, atStart, editorVars, loopVars>>

NarrowNext ==
    \/ \E t \in WideTexts : WideStreamingCall(t)
    \/ KeystrokeRedraw
    \/ NarrowPermanentCall
    \/ NarrowSpinnerCall
    \/ \E width \in ResizedCols : Resize(width)

SpecNarrow == StreamInit /\ [][NarrowNext]_vars

\* C40: in every reachable state 0 <= streamingCol < terminal width, and
\* streamingCol is 0 whenever streamingActive is false.
C40_StreamingColInRange ==
    /\ 0 <= streamingCol
    /\ streamingCol < cols
    /\ ~streamingActive => streamingCol = 0

\* What holds: the column is never negative, it is 0 while nothing is
\* streamed, and it is below the width the terminal had at the last write.
ColInRangeAtWrite ==
    /\ 0 <= streamingCol
    /\ streamingCol < NarrowCols
    /\ ~streamingActive => streamingCol = 0
    /\ lastOp = "writeStreaming" => streamingCol < cols

\* A streamed row that reached the last column: the count went back to 0.
ColWentBack ==
    streamingActive /\ streamingCol = 0 /\ lastOp = "writeStreaming"
    /\ Len(output.rows[Len(output.rows)]) = cols

====
